---- MODULE Spec2Model ----
(***************************************************************************)
(* Skill-Repo: the skill validator (package_skill.py), the forge CLI       *)
(* (forge.py) and the documentation scorer (doc_analyzer.py), modelled at  *)
(* the level of the characters of SKILL.md and the entries of the skill    *)
(* directory.                                                              *)
(*                                                                         *)
(* A text is a sequence of one-character strings.  Some tokens stand for a *)
(* run of the letter x ("x*46", "x*20000", ...): every matching operation  *)
(* sees them as an ordinary letter, len() counts their width.  The token   *)
(* "xline*496" stands for 496 lines holding one x each; it is only used as *)
(* the end of a text, where the operations on lines see in it a last line  *)
(* without interest and splitlines() counts its lines.  The backtick is    *)
(* the token BACKTICK.                                                     *)
(***************************************************************************)
EXTENDS Integers, Sequences, FiniteSets, TLC

\* ------------------------------------------------------------------ text

\* The number of characters a token stands for.
Width(c) ==
  CASE c = "x*46" -> 46
    [] c = "x*20000" -> 20000
    [] c = "x*19909" -> 19909
    [] c = "xline*496" -> 992
    [] OTHER -> 1

RunTokens == { "x*46", "x*20000", "x*19909", "xline*496" }

RECURSIVE RunExcess(_, _)
\* The characters the run tokens of s stand for beyond one each.
RunExcess(s, tokens) ==
  IF tokens = {} THEN 0
  ELSE LET t == CHOOSE x \in tokens : TRUE IN
       (Width(t) - 1) * Cardinality({ i \in 1..Len(s) : s[i] = t }) + RunExcess(s, tokens \ { t })

\* Python len(str).
len(s) == Len(s) + RunExcess(s, RunTokens)

\* Whether p occurs in s at index i (1-based).
MatchAt(s, i, p) ==
  /\ i >= 1
  /\ i + Len(p) - 1 <= Len(s)
  /\ \A k \in 1..Len(p) : s[i + k - 1] = p[k]

\* str.startswith(p).
startswith(s, p) == MatchAt(s, 1, p)

\* str.endswith(p).
endswith(s, p) == MatchAt(s, Len(s) - Len(p) + 1, p)

\* The least element of a set of indices, 0 for the empty set.
First(S) == IF S = {} THEN 0 ELSE CHOOSE j \in S : \A h \in S : j <= h

\* The greatest element of a set of indices, 0 for the empty set.
Last(S) == IF S = {} THEN 0 ELSE CHOOSE j \in S : \A h \in S : h <= j

\* str.find(p, start): the first index >= i where p occurs, 0 when none.
find(s, p, i) == First({ j \in i..(Len(s) - Len(p) + 1) : MatchAt(s, j, p) })

\* p in s.
contains(s, p) == \E j \in 1..(Len(s) - Len(p) + 1) : MatchAt(s, j, p)

RECURSIVE countFrom(_, _, _)
\* The occurrences of p in s counted from the one found at j on.
countFrom(s, p, j) ==
  IF j = 0 THEN 0 ELSE 1 + countFrom(s, p, find(s, p, j + Len(p)))

\* str.count(p): non-overlapping occurrences, left to right.
count(s, p) == countFrom(s, p, find(s, p, 1))

RECURSIVE splitFrom(_, _, _, _, _)
\* The parts of s from index i on, j being the next separator to split at.
splitFrom(s, sep, i, j, maxsplit) ==
  IF j = 0 \/ maxsplit = 0 THEN << SubSeq(s, i, Len(s)) >>
  ELSE << SubSeq(s, i, j - 1) >>
         \o splitFrom(s, sep, j + Len(sep), find(s, sep, j + Len(sep)), maxsplit - 1)

\* str.split(sep, maxsplit); maxsplit = -1 is no limit.
split(s, sep, maxsplit) == splitFrom(s, sep, 1, find(s, sep, 1), maxsplit)

IsSpace(c) == c \in { " ", "\n", "\t" }

\* s[a..b], empty when a is 0.
Slice(s, a, b) == IF a = 0 THEN << >> ELSE SubSeq(s, a, b)

\* str.strip(): from the first to the last character that is no whitespace.
strip(s) ==
  Slice(s, First({ i \in 1..Len(s) : ~IsSpace(s[i]) }), Last({ i \in 1..Len(s) : ~IsSpace(s[i]) }))

RECURSIVE joinFrom(_, _, _)
joinFrom(sep, parts, i) ==
  IF i > Len(parts) THEN << >>
  ELSE IF i = Len(parts) THEN parts[i]
  ELSE parts[i] \o sep \o joinFrom(sep, parts, i + 1)

\* sep.join(parts).
join(sep, parts) == joinFrom(sep, parts, 1)

LowerChar(c) ==
  CASE c = "A" -> "a" [] c = "B" -> "b" [] c = "C" -> "c" [] c = "D" -> "d"
    [] c = "E" -> "e" [] c = "F" -> "f" [] c = "G" -> "g" [] c = "H" -> "h"
    [] c = "I" -> "i" [] c = "J" -> "j" [] c = "K" -> "k" [] c = "L" -> "l"
    [] c = "M" -> "m" [] c = "N" -> "n" [] c = "O" -> "o" [] c = "P" -> "p"
    [] c = "Q" -> "q" [] c = "R" -> "r" [] c = "S" -> "s" [] c = "T" -> "t"
    [] c = "U" -> "u" [] c = "V" -> "v" [] c = "W" -> "w" [] c = "X" -> "x"
    [] c = "Y" -> "y" [] c = "Z" -> "z" [] OTHER -> c

\* str.lower().
lower(s) == [i \in 1..Len(s) |-> LowerChar(s[i])]

\* The line ends a token stands for.
LineEnds(c) ==
  CASE c = "\n" -> 1
    [] c = "xline*496" -> 496
    [] OTHER -> 0

\* len(str.splitlines()): the text has only "\n" as a line boundary; a last
\* line that no "\n" ends counts too.
splitlines_count(s) ==
  Cardinality({ i \in 1..Len(s) : s[i] = "\n" })
  + 496 * Cardinality({ i \in 1..Len(s) : s[i] = "xline*496" })
  + (IF Len(s) > 0 /\ LineEnds(s[Len(s)]) = 0 THEN 1 ELSE 0)

\* The orders in which a Python set of strings can be iterated: the hash of a
\* string is randomised per process, so every order of the elements is possible.
Orders(S) ==
  { f \in [1..Cardinality(S) -> S] : \A i, j \in 1..Cardinality(S) : f[i] = f[j] => i = j }

\* ------------------------------------------------------------ literals

\* The token of the backtick character.
BACKTICK == "BACKTICK"
DELIM == << "-", "-", "-" >>
NL == << "\n" >>
K_name == << "n", "a", "m", "e" >>
K_description == << "d", "e", "s", "c", "r", "i", "p", "t", "i", "o", "n" >>
TODO == << "T", "O", "D", "O" >>
SKILL_MD == << "S", "K", "I", "L", "L", ".", "m", "d" >>
README_MD == << "R", "E", "A", "D", "M", "E", ".", "m", "d" >>
D_scripts == << "s", "c", "r", "i", "p", "t", "s" >>
D_references == << "r", "e", "f", "e", "r", "e", "n", "c", "e", "s" >>
D_assets == << "a", "s", "s", "e", "t", "s" >>

\* ---------------------------------------------------------------- YAML
\* yaml.safe_load on the block-mapping subset of YAML: one key: value pair per
\* line at column 0, plain or double-quoted scalars, no comments, no flow or
\* nested collections.  A scalar is [t |-> its Python type, s |-> its text].

Scalar(t, s) == [t |-> t, s |-> s]
None == Scalar("NoneType", << >>)

IsDigits(s) ==
  /\ Len(s) > 0
  /\ \A i \in 1..Len(s) : s[i] \in { "0", "1", "2", "3", "4", "5", "6", "7", "8", "9" }

\* The implicit type of a plain scalar (YAML 1.1 core tags, as PyYAML resolves).
Resolve(p) ==
  IF p \in { << >>, << "~" >>, << "n", "u", "l", "l" >> } THEN None
  ELSE IF IsDigits(p) THEN Scalar("int", p)
  ELSE IF p \in { << "t", "r", "u", "e" >>, << "f", "a", "l", "s", "e" >>,
                  << "y", "e", "s" >>, << "n", "o" >>, << "o", "n" >>, << "o", "f", "f" >> }
       THEN Scalar("bool", p)
  ELSE Scalar("str", p)

\* The first ':' of the line that ends a key: one followed by a space or the
\* end of the line; 0 when the line has none.
sepPos(l) ==
  First({ i \in 1..Len(l) : l[i] = ":" /\ (i = Len(l) \/ l[i + 1] = " ") })

\* The stripped value of a mapping line: [ok, v].
YamlValue(v) ==
  IF v = << >> THEN [ok |-> TRUE, v |-> None]
  ELSE IF v[1] = "\"" THEN
    IF Len(v) >= 2 /\ v[Len(v)] = "\"" /\ \A i \in 2..(Len(v) - 1) : v[i] # "\""
    THEN [ok |-> TRUE, v |-> Scalar("str", SubSeq(v, 2, Len(v) - 1))]
    ELSE [ok |-> FALSE, v |-> None]
  ELSE IF sepPos(v) # 0 THEN [ok |-> FALSE, v |-> None]
  ELSE [ok |-> TRUE, v |-> Resolve(v)]

\* A mapping line split at its separator i.
YamlEntry(l, i, val) ==
  [kind |-> IF val.ok THEN "entry" ELSE "error", k |-> Resolve(strip(SubSeq(l, 1, i - 1))), v |-> val.v]

\* One non-blank line, i being sepPos(l): a mapping entry, a bare scalar, or a
\* syntax error.
YamlLineAt(l, i) ==
  IF l[1] = " " THEN [kind |-> "error", k |-> None, v |-> None]
  ELSE IF i = 0 THEN [kind |-> "scalar", k |-> None, v |-> None]
  ELSE YamlEntry(l, i, YamlValue(strip(SubSeq(l, i + 1, Len(l)))))

YamlLine(l) == YamlLineAt(l, sepPos(l))

\* dict[k] = v on an insertion-ordered dict: a key already present keeps its
\* place and takes the new value.
DictSet(d, k, v) ==
  IF \E i \in 1..Len(d) : d[i].k = k
  THEN [i \in 1..Len(d) |-> IF d[i].k = k THEN [k |-> k, v |-> v] ELSE d[i]]
  ELSE Append(d, [k |-> k, v |-> v])

RECURSIVE YamlDict(_, _)
\* The dict of the first i entries.
YamlDict(ls, i) ==
  IF i = 0 THEN << >> ELSE DictSet(YamlDict(ls, i - 1), ls[i].k, ls[i].v)

\* What the parsed lines load as.
YamlDocument(parsed, kinds) ==
  IF kinds = {} THEN [kind |-> "NoneType", d |-> << >>]
  ELSE IF kinds = { "entry" } THEN [kind |-> "dict", d |-> YamlDict(parsed, Len(parsed))]
  ELSE IF kinds = { "scalar" } THEN [kind |-> "scalar", d |-> << >>]
  ELSE [kind |-> "YAMLError", d |-> << >>]

YamlParsed(parsed) == YamlDocument(parsed, { parsed[i].kind : i \in 1..Len(parsed) })

YamlLines(nonblank) == YamlParsed([i \in 1..Len(nonblank) |-> YamlLine(nonblank[i])])

\* yaml.safe_load(text): [kind |-> "dict" | "NoneType" | "scalar" | "YAMLError",
\* d |-> the entries of a dict, in insertion order].
safe_load(text) ==
  YamlLines(SelectSeq(split(text, NL, -1), LAMBDA l : \E i \in 1..Len(l) : ~IsSpace(l[i])))

\* key in d, and d[key], for a str key.
DictHas(d, key) == \E i \in 1..Len(d) : d[i].k = Scalar("str", key)
DictGet(d, key) == d[CHOOSE i \in 1..Len(d) : d[i].k = Scalar("str", key)].v

\* ---------------------------------------------------------- the program state

VARIABLES
  fs,         \* the skill directory: SKILL.md, its top-level files, its subdirectories
  archive,    \* the <skill>.skill file of the output directory, and the writes to it
  cmd,        \* the command line being run, "idle" between processes
  pc,         \* where the running process is
  validator,  \* the SkillValidator of the running process: errors, warnings
  is_valid,   \* what validate() returned to the running process
  last,       \* what the last process that ended did and printed
  prev,       \* the same for the process before it
  nruns       \* processes started so far

vars == << fs, archive, cmd, pc, validator, is_valid, last, prev, nruns >>

\* -------------------------------------------------------------- pathlib

\* The components of a relative path: pathlib drops empty and "." components.
PathParts(path) ==
  SelectSeq(split(path, << "/" >>, -1), LAMBDA c : c # << >> /\ c # << "." >>)

SubdirNames == { D_scripts, D_references, D_assets }

\* Whether the skill directory holds the path of these components.
ExistsParts(parts) ==
  /\ fs.dir = "dir"
  /\ \/ Len(parts) = 0
     \/ /\ Len(parts) = 1
        /\ \/ parts[1] = SKILL_MD /\ fs.md_exists
           \/ parts[1] \in fs.files
           \/ parts[1] \in SubdirNames /\ fs.sub[parts[1]].exists
     \/ /\ Len(parts) = 2
        /\ parts[1] \in SubdirNames
        /\ fs.sub[parts[1]].exists
        /\ parts[2] \in fs.sub[parts[1]].names

\* (skill_path / path).exists() for a relative path.
Exists(path) == ExistsParts(PathParts(path))

\* skill_md.read_text()
read_text == fs.md_text

\* ------------------------------------------- package_skill.SkillValidator

MinDescriptionLen == 50
CharsPerToken == 4
TokenLimit == 5000
LineLimit == 500

\* A message: its fixed wording, the text and the number formatted into it.
Msg(kind, arg, num) == [kind |-> kind, arg |-> arg, num |-> num]
NoMsg == Msg("", << >>, 0)

\* SkillValidator.__init__
SkillValidator == [errors |-> << >>, warnings |-> << >>]

\* How a method ends: normally, or by raising exc with message msg.  A method
\* is the set of the ways it can end on the validator it is called on: more
\* than one when it iterates over a set.
Return(self) == [errors |-> self.errors, warnings |-> self.warnings, exc |-> "none", msg |-> NoMsg]
Raise(self, exc, msg) == [errors |-> self.errors, warnings |-> self.warnings, exc |-> exc, msg |-> msg]

\* self.warnings.append(w) when cond holds.
WarnIf(self, cond, w) == IF cond THEN [self EXCEPT !.warnings = Append(@, w)] ELSE self

\* self.errors.append(e) when cond holds.
ErrorIf(self, cond, e) == IF cond THEN [self EXCEPT !.errors = Append(@, e)] ELSE self

_check_skill_md_exists(self) ==
  IF ~Exists(SKILL_MD)
  THEN { Raise(self, "ValidationError", Msg("SKILL.md not found", << >>, 0)) }
  ELSE { Return(self) }

\* set(frontmatter.keys()) - {"name", "description"}
extra_fields(d) ==
  { d[i].k : i \in 1..Len(d) } \ { Scalar("str", K_name), Scalar("str", K_description) }

\* Lines 103-107 for one order in which the set is iterated: the warning naming
\* the extra fields; str.join raises TypeError on a key that is no str.
ExtraFieldsWarning(self, order) ==
  IF Len(order) = 0 THEN Return(self)
  ELSE IF \E i \in 1..Len(order) : order[i].t # "str"
  THEN Raise(self, "TypeError", Msg("sequence item: expected str instance", << >>, 0))
  ELSE Return(WarnIf(self, TRUE,
         Msg("Frontmatter contains extra fields",
             join(<< ",", " " >>, [i \in 1..Len(order) |-> order[i].s]), 0)))

\* Lines 101-107: one outcome for each order the set extra_fields can be
\* iterated in.
ExtraFields(self, fields) == { ExtraFieldsWarning(self, order) : order \in Orders(fields) }

\* Lines 90-99: the TODO and the length warning.
DescriptionWarnings(self, description) ==
  WarnIf(WarnIf(self,
                contains(description, TODO) \/ contains(description, << "T", "O", "D", "O", ":" >>),
                Msg("Description contains TODO placeholders", << >>, 0)),
         len(description) < MinDescriptionLen,
         Msg("Description is quite short", << >>, 0))

\* A variant of NonEmptyStr without the strip(); C5 fails under it.
NonEmptyUnstripped(v) == v.t = "str" /\ Len(v.s) > 0

\* Whether a required field holds a non-empty string, lines 82 and 87.
NonEmptyStr(v) == v.t = "str" /\ \E i \in 1..Len(v.s) : ~IsSpace(v.s[i])

\* The hard checks on the loaded frontmatter, lines 70-88: the message of the
\* first one that raises, NoMsg when none does.
RequiredFieldError(fm) ==
  IF fm.kind # "dict" THEN Msg("Frontmatter must be a YAML dictionary", << >>, 0)
  ELSE IF ~DictHas(fm.d, K_name) THEN Msg("Frontmatter missing required 'name' field", << >>, 0)
  ELSE IF ~DictHas(fm.d, K_description)
  THEN Msg("Frontmatter missing required 'description' field", << >>, 0)
  ELSE IF ~NonEmptyStr(DictGet(fm.d, K_name))
  THEN Msg("'name' field must be a non-empty string", << >>, 0)
  ELSE IF ~NonEmptyStr(DictGet(fm.d, K_description))
  THEN Msg("'description' field must be a non-empty string", << >>, 0)
  ELSE NoMsg

\* Lines 70-107 on the loaded frontmatter, err being the first hard check that fails.
FrontmatterChecked(self, fm, err) ==
  IF err # NoMsg THEN { Raise(self, "ValidationError", err) }
  ELSE ExtraFields(DescriptionWarnings(self, DictGet(fm.d, K_description).s), extra_fields(fm.d))

\* Lines 65-107 on what yaml.safe_load returned or raised.
FrontmatterLoaded(self, fm) ==
  IF fm.kind = "YAMLError"
  THEN { Raise(self, "ValidationError", Msg("Invalid YAML frontmatter", << >>, 0)) }
  ELSE FrontmatterChecked(self, fm, RequiredFieldError(fm))

\* Lines 61-107 on the parts of content.split("---", 2).
FrontmatterParts(self, parts) ==
  IF Len(parts) < 3
  THEN { Raise(self, "ValidationError", Msg("Invalid YAML frontmatter format", << >>, 0)) }
  ELSE FrontmatterLoaded(self, safe_load(parts[2]))

\* Lines 55-107 on the text read.
FrontmatterOf(self, content) ==
  IF ~startswith(content, DELIM)
  THEN { Raise(self, "ValidationError", Msg("SKILL.md must start with YAML frontmatter (---)", << >>, 0)) }
  ELSE FrontmatterParts(self, split(content, DELIM, 2))

_validate_frontmatter(self) == FrontmatterOf(self, read_text)

\* extraneous_files, in the order of the list.
extraneous_files ==
  << << "I", "N", "S", "T", "A", "L", "L", "A", "T", "I", "O", "N", "_", "G", "U", "I", "D", "E", ".", "m", "d" >>,
     << "Q", "U", "I", "C", "K", "_", "R", "E", "F", "E", "R", "E", "N", "C", "E", ".", "m", "d" >>,
     << "C", "H", "A", "N", "G", "E", "L", "O", "G", ".", "m", "d" >>,
     << "C", "O", "N", "T", "R", "I", "B", "U", "T", "I", "N", "G", ".", "m", "d" >> >>

RECURSIVE ExtraneousErrors(_, _)
\* The loop of lines 126-131 from the i-th filename on.
ExtraneousErrors(self, i) ==
  IF i > Len(extraneous_files) THEN self
  ELSE ExtraneousErrors(
         ErrorIf(self, Exists(extraneous_files[i]),
                 Msg("found. Skills should not contain auxiliary documentation files.",
                     extraneous_files[i], 0)),
         i + 1)

_validate_structure(self) ==
  { Return(ExtraneousErrors(WarnIf(self, Exists(README_MD), Msg("README.md found", << >>, 0)), 1)) }

\* The first index >= i where character c occurs, 0 when none.
IndexOf(s, c, i) == First({ j \in i..Len(s) : s[j] = c })

RECURSIVE findall_links(_, _)
\* A link opened by the '[' at i and closed by the first ']' after it, at j,
\* k being the first ')' at or after j + 2: the match and the matches after
\* it, or the matches from i + 1 on when there is none at i.
LinkAt(s, i, j, k) ==
  IF j > i + 1 /\ j + 1 <= Len(s) /\ s[j + 1] = "(" /\ k > j + 2
  THEN << << SubSeq(s, i + 1, j - 1), SubSeq(s, j + 2, k - 1) >> >> \o findall_links(s, k + 1)
  ELSE findall_links(s, i + 1)

LinkFrom(s, i, j) == IF i = 0 THEN << >> ELSE LinkAt(s, i, j, IndexOf(s, ")", j + 2))

LinkOpen(s, i) == LinkFrom(s, i, IndexOf(s, "]", i + 1))

\* re.findall(r'\[([^\]]+)\]\(([^)]+)\)', s) from index `from` on: the
\* (text, target) groups of the non-overlapping matches, left to right.
findall_links(s, from) == LinkOpen(s, IndexOf(s, "[", from))

\* The alternatives of (py|sh|md|txt).
CodeExts == { << "p", "y" >>, << "s", "h" >>, << "m", "d" >>, << "t", "x", "t" >> }

RECURSIVE findall_code(_, _)
\* A code span opened by the backtick at i and closed by the next one, at j:
\* it matches when it ends in a dot and one of the extensions, after at least
\* one other character.
CodeSpan(s, i, j, span, exts) ==
  IF exts # {}
  THEN << << span, CHOOSE e \in exts : TRUE >> >> \o findall_code(s, j + 1)
  ELSE findall_code(s, i + 1)

CodeAt(s, i, j, span) ==
  CodeSpan(s, i, j, span,
           { e \in CodeExts : endswith(span, << "." >> \o e) /\ Len(span) > Len(e) + 1 })

CodeFrom(s, i, j) == IF i = 0 \/ j = 0 THEN << >> ELSE CodeAt(s, i, j, SubSeq(s, i + 1, j - 1))

CodeOpen(s, i) == CodeFrom(s, i, IndexOf(s, BACKTICK, i + 1))

\* re.findall of the code-span pattern of line 141 (a backtick, [^backtick]+
\* ending in \.(py|sh|md|txt), a backtick) from index `from` on: the
\* (span, extension) groups of the non-overlapping matches, left to right.
findall_code(s, from) == CodeOpen(s, IndexOf(s, BACKTICK, from))

IsUrlOrAnchor(filepath) ==
  \/ startswith(filepath, << "h", "t", "t", "p", ":", "/", "/" >>)
  \/ startswith(filepath, << "h", "t", "t", "p", "s", ":", "/", "/" >>)
  \/ startswith(filepath, << "#" >>)

\* The filepath of each match, lines 148-151 (match[1] of the tuple), with the
\* URLs and anchors skipped.
MatchPaths(matches) ==
  { matches[i][2] : i \in { n \in 1..Len(matches) : ~IsUrlOrAnchor(matches[n][2]) } }

\* The set referenced_files built by lines 144-157.
referenced_files(content) ==
  MatchPaths(findall_links(content, 1)) \cup MatchPaths(findall_code(content, 1))

RECURSIVE MissingWarnings(_, _, _)
\* The loop of lines 160-165 from the i-th file of the iteration order on.
MissingWarnings(self, order, i) ==
  IF i > Len(order) THEN self
  ELSE MissingWarnings(
         WarnIf(self, ~Exists(order[i]), Msg("Referenced file not found", order[i], 0)),
         order, i + 1)

\* Lines 159-165: one outcome for each order the set can be iterated in.
MissingOutcomes(self, files) ==
  { Return(MissingWarnings(self, order, 1)) : order \in Orders(files) }

_check_file_references(self) == MissingOutcomes(self, referenced_files(read_text))

\* Lines 172-187 on the estimated tokens and the line count.
\* A variant of BudgetWarnings that warns from the limits on; C12 fails under it.
BudgetWarningsFromLimit(self, estimated_tokens, line_count) ==
  WarnIf(WarnIf(self, estimated_tokens >= TokenLimit, Msg("SKILL.md is large", << >>, estimated_tokens)),
         line_count >= LineLimit, Msg("SKILL.md has lines", << >>, line_count))

BudgetWarnings(self, estimated_tokens, line_count) ==
  WarnIf(WarnIf(self, estimated_tokens > TokenLimit, Msg("SKILL.md is large", << >>, estimated_tokens)),
         line_count > LineLimit, Msg("SKILL.md has lines", << >>, line_count))

_check_token_budget(self) ==
  { Return(BudgetWarnings(self, len(read_text) \div CharsPerToken, splitlines_count(read_text))) }

\* The n-th statement of the try block, lines 35-39.
Statement(n, self) ==
  CASE n = 1 -> _check_skill_md_exists(self)
    [] n = 2 -> _validate_frontmatter(self)
    [] n = 3 -> _validate_structure(self)
    [] n = 4 -> _check_file_references(self)
    [] n = 5 -> _check_token_budget(self)

\* The n-th statement after each way the statements before it can end: it
\* runs when they raised nothing.
Then(rs, n) ==
  UNION { IF r.exc = "none" THEN Statement(n, [errors |-> r.errors, warnings |-> r.warnings])
          ELSE { r } : r \in rs }

\* A variant of ReturnedClean that also asks for no warnings, as the closing
\* line of print_results does; C1 fails under it.
ReturnedQuiet(r) ==
  [errors |-> r.errors, warnings |-> r.warnings,
   ret |-> IF Len(r.errors) = 0 /\ Len(r.warnings) = 0 THEN "True" ELSE "False"]

\* The return of line 41 on the errors collected.
ReturnedClean(r) ==
  [errors |-> r.errors, warnings |-> r.warnings,
   ret |-> IF Len(r.errors) = 0 THEN "True" ELSE "False"]

\* Lines 41-44: the return of the try block, or the except clause; any other
\* exception leaves validate() uncaught.
Returned(r) ==
  IF r.exc = "none" THEN ReturnedClean(r)
  ELSE IF r.exc = "ValidationError"
  THEN [errors |-> Append(r.errors, r.msg), warnings |-> r.warnings, ret |-> "False"]
  ELSE [errors |-> r.errors, warnings |-> r.warnings, ret |-> r.exc]

\* The try block, lines 35-39, in every way it can end.
Checks(self) == Then(Then(Then(Then(Statement(1, self), 2), 3), 4), 5)

\* The ways validate() can end on a new validator: the validator afterwards
\* and, as ret, the value returned ("True", "False") or the exception that
\* left it uncaught.
validate(self) == { Returned(r) : r \in Checks(self) }

\* --------------------------------------------- package_skill.package_skill

\* The files the loop of lines 219-226 keeps: hidden files and compiled files
\* are skipped.  The tree holds no hidden directory.
Packaged(name) ==
  /\ ~startswith(name, << "." >>)
  /\ ~endswith(name, << ".", "p", "y", "c" >>)
  /\ ~endswith(name, << ".", "p", "y", "o" >>)

\* The archive package_skill writes, a new file or over the one there: the
\* member paths below the skill directory, and how often it has been written.
package_skill ==
  [exists |-> TRUE, writes |-> archive.writes + 1,
   members |->
     { << n >> : n \in { f \in fs.files \cup (IF fs.md_exists THEN { SKILL_MD } ELSE {}) : Packaged(f) } }
     \cup UNION { { << d, n >> : n \in { f \in fs.sub[d].names : Packaged(f) } } :
                  d \in { x \in SubdirNames : fs.sub[x].exists } }]

\* ------------------------------------------------------ forge.SkillForge.lint

BoldLimit == 40
LineCut == 60
ShownLines == 3

\* line[:n]: the longest prefix of at most n characters (a run is never cut:
\* the lines this is applied to hold none).
TakeChars(line, n) == SubSeq(line, 1, Last({ k \in 1..Len(line) : len(SubSeq(line, 1, k)) <= n }))

YouPrefixes ==
  { << "y", "o", "u", " ", "s", "h", "o", "u", "l", "d" >>,
    << "y", "o", "u", " ", "c", "a", "n" >>,
    << "y", "o", "u", " ", "m", "u", "s", "t" >>,
    << "y", "o", "u", " ", "w", "i", "l", "l" >> }

StartsWithYou(line_lower) == \E p \in YouPrefixes : startswith(line_lower, p)

\* Lines 163-167: the lines kept, each cut at LineCut characters.
NonImperativeOf(lines) ==
  [i \in 1..Len(lines) |-> TakeChars(lines[i], LineCut)]

non_imperative(content) ==
  NonImperativeOf(SelectSeq(split(content, NL, -1), LAMBDA line : StartsWithYou(strip(lower(line)))))

\* Lines 169-173 on the list collected.
ImperativeSuggestion(suggestions, lines) ==
  IF Len(lines) = 0 THEN suggestions
  ELSE Append(suggestions,
         Msg("Consider using imperative voice",
             join(NL, SubSeq(lines, 1, IF Len(lines) < ShownLines THEN Len(lines) ELSE ShownLines)), 0))

\* Lines 176-181 on the count.
BoldSuggestion(suggestions, bold_count) ==
  IF bold_count > BoldLimit
  THEN Append(suggestions, Msg("Lots of bold formatting", << >>, bold_count \div 2))
  ELSE suggestions

\* list(dir.iterdir()) is empty.
DirIsEmpty(d) == fs.sub[d].names = {}

\* A variant of AssetsPlaceholder that asks for an empty directory; C10 fails
\* under it.
AssetsEmpty == fs.sub[D_assets].names = {}

\* Line 200: the directory holds nothing, or README.md alone.
AssetsPlaceholder == fs.sub[D_assets].names \in { {}, { README_MD } }

\* Lines 184-201 for one directory.
DirSuggestion(suggestions, d, empty) ==
  IF fs.sub[d].exists /\ empty
  THEN Append(suggestions, Msg("directory is empty - consider removing it", d, 0))
  ELSE suggestions

\* Lines 158-160 on the count.
TodoIssues(todo_count) ==
  IF todo_count > 0 THEN << Msg("Found TODO placeholder(s)", << >>, todo_count) >> ELSE << >>

\* Lines 162-201: the suggestions, in the order the checks append them.
LintSuggestions(content) ==
  DirSuggestion(
    DirSuggestion(
      DirSuggestion(
        BoldSuggestion(ImperativeSuggestion(<< >>, non_imperative(content)),
                       count(content, << "*", "*" >>)),
        D_scripts, DirIsEmpty(D_scripts)),
      D_references, DirIsEmpty(D_references)),
    D_assets, AssetsPlaceholder)

\* lint() from line 153 on: the two lists it prints.
lint(content) ==
  [issues |-> TodoIssues(count(content, TODO)), suggestions |-> LintSuggestions(content)]

\* ------------------------------------- doc_analyzer.SkillDocAnalyzer (parsing)

\* A variant of FrontmatterGroup whose pattern is not anchored at the start of
\* the text; C4 fails under it.
FrontmatterGroupUnanchored(content, j) ==
  IF j = 0 THEN [matched |-> FALSE, group |-> << >>]
  ELSE [matched |-> TRUE, group |-> SubSeq(content, 5, j - 1)]

\* re.search(r'^---\n(.*?)\n---', content, re.DOTALL), j being the first
\* "\n---" at or after the fifth character: group 1, or no match.
FrontmatterGroup(content, j) ==
  IF ~startswith(content, DELIM \o NL) \/ j = 0
  THEN [matched |-> FALSE, group |-> << >>]
  ELSE [matched |-> TRUE, group |-> SubSeq(content, 5, j - 1)]

FrontmatterMatch(content) == FrontmatterGroup(content, find(content, NL \o DELIM, 5))

\* A variant of KeyValue that splits the line at its last colon; C27 fails
\* under it.
KeyValueLastColon(line, i) ==
  [k |-> strip(SubSeq(line, 1, Last({ j \in 1..Len(line) : line[j] = ":" }) - 1)),
   v |-> strip(SubSeq(line, Last({ j \in 1..Len(line) : line[j] = ":" }) + 1, Len(line)))]

\* One line holding ':', split at its first ':' (i), both sides stripped.
KeyValue(line, i) ==
  [k |-> strip(SubSeq(line, 1, i - 1)), v |-> strip(SubSeq(line, i + 1, Len(line)))]

RECURSIVE FlatDict(_, _)
\* The dict the loop of lines 40-43 builds from the first i lines holding ':'.
FlatDict(lines, i) ==
  IF i = 0 THEN << >>
  ELSE DictSet(FlatDict(lines, i - 1),
               KeyValue(lines[i], IndexOf(lines[i], ":", 1)).k,
               KeyValue(lines[i], IndexOf(lines[i], ":", 1)).v)

FlatLines(lines) == FlatDict(lines, Len(lines))

FrontmatterDict(m) ==
  IF ~m.matched THEN << >>
  ELSE FlatLines(SelectSeq(split(m.group, NL, -1), LAMBDA line : IndexOf(line, ":", 1) # 0))

\* _parse_frontmatter: the dict of str keys and str values, in insertion order.
_parse_frontmatter(content) == FrontmatterDict(FrontmatterMatch(content))

\* ------------------------------------ doc_analyzer.SkillDocAnalyzer (scoring)

\* What the loop of lines 53-60 holds: the dict, the title of the section it is
\* in (empty before the first one, as None is) and the lines collected for it.
SectionState(sections, current_section, current_content) ==
  [sections |-> sections, current_section |-> current_section, current_content |-> current_content]

\* Lines 55-56 and 62-63: the section at hand is stored when its title is not empty.
StoreSection(st) ==
  IF st.current_section # << >>
  THEN DictSet(st.sections, st.current_section, join(NL, st.current_content))
  ELSE st.sections

\* Lines 54-60 for one line.
SectionLine(st, line) ==
  IF startswith(line, << "#", "#", " " >>)
  THEN SectionState(StoreSection(st), strip(SubSeq(line, 4, Len(line))), << >>)
  ELSE IF st.current_section # << >>
  THEN SectionState(st.sections, st.current_section, Append(st.current_content, line))
  ELSE st

RECURSIVE SectionLines(_, _)
\* The loop of lines 53-60 over the first i lines.
SectionLines(lines, i) ==
  IF i = 0 THEN SectionState(<< >>, << >>, << >>)
  ELSE SectionLine(SectionLines(lines, i - 1), lines[i])

SectionsOf(lines) == StoreSection(SectionLines(lines, Len(lines)))

\* _parse_sections: the dict of titles and contents, in insertion order.
_parse_sections(content) == SectionsOf(split(content, NL, -1))

\* key in a dict of str keys, as _parse_frontmatter and _parse_sections build.
HasKey(d, key) == \E i \in 1..Len(d) : d[i].k = key

\* d[key]
ValueOf(d, key) == d[CHOOSE i \in 1..Len(d) : d[i].k = key].v

\* _find_scripts: the names scripts_dir.glob("*.py") gives.
_find_scripts ==
  IF Exists(D_scripts)
  THEN { n \in fs.sub[D_scripts].names : endswith(n, << ".", "p", "y" >>) }
  ELSE {}

\* A (score, max_score, issues) tuple.
Triple(score, max_score, issues) == [score |-> score, max_score |-> max_score, issues |-> issues]

\* score += points, or issues.append(issue), as cond holds.
Award(t, cond, points, issue) ==
  IF cond THEN [t EXCEPT !.score = @ + points] ELSE [t EXCEPT !.issues = Append(@, issue)]

\* score -= points and issues.append(issue) when cond holds.
Deduct(t, cond, points, issue) ==
  IF cond THEN [t EXCEPT !.score = @ - points, !.issues = Append(@, issue)] ELSE t

trigger_keywords ==
  { << "w", "h", "e", "n" >>,
    << "a", "c", "t", "i", "v", "a", "t", "e", "d", " ", "b", "y" >>,
    << "u", "s", "e", " ", "f", "o", "r" >>,
    << "t", "r", "i", "g", "g", "e", "r" >> }

\* Line 116 on desc.lower().
HasTrigger(desc_lower) == \E kw \in trigger_keywords : contains(desc_lower, kw)

\* A variant of DescriptionScore that gives the length bonus from 50
\* characters on; C14 fails under it.
DescriptionScoreFrom50(t, desc) ==
  Award(
    Deduct(
      Award([t EXCEPT !.score = @ + 5],
            len(desc) >= 50, 5, Msg("Description too short (< 50 chars)", << >>, 0)),
      contains(desc, TODO), 5, Msg("Description contains TODO placeholder", << >>, 0)),
    HasTrigger(lower(desc)), 5, Msg("Description lacks clear trigger terms", << >>, 0))

\* Lines 100-119 on the description.
DescriptionScore(t, desc) ==
  Award(
    Deduct(
      Award([t EXCEPT !.score = @ + 5],
            len(desc) > 50, 5, Msg("Description too short (< 50 chars)", << >>, 0)),
      contains(desc, TODO), 5, Msg("Description contains TODO placeholder", << >>, 0)),
    HasTrigger(lower(desc)), 5, Msg("Description lacks clear trigger terms", << >>, 0))

\* Lines 99-121 after the check of the name.
DescriptionChecked(t, frontmatter) ==
  IF HasKey(frontmatter, K_description)
  THEN DescriptionScore(t, ValueOf(frontmatter, K_description))
  ELSE [t EXCEPT !.issues = Append(@, Msg("Missing 'description' field in frontmatter", << >>, 0))]

_score_frontmatter(frontmatter) ==
  DescriptionChecked(
    Award(Triple(0, 20, << >>), HasKey(frontmatter, K_name), 5,
          Msg("Missing 'name' field in frontmatter", << >>, 0)),
    frontmatter)

\* A variant of Or that takes the second spelling; C15 fails under it.
OrSecond(a, b) == b

\* Python a or b on two strings.
Or(a, b) == IF a # << >> THEN a ELSE b

\* recommended_sections, lines 131-137: the titles, each worth 5 points.
recommended_sections ==
  << Or(<< "P", "u", "r", "p", "o", "s", "e" >>, << "O", "v", "e", "r", "v", "i", "e", "w" >>),
     << "U", "s", "a", "g", "e" >>,
     << "B", "u", "n", "d", "l", "e", "d", " ", "R", "e", "s", "o", "u", "r", "c", "e", "s" >>,
     << "B", "e", "s", "t", " ", "P", "r", "a", "c", "t", "i", "c", "e", "s" >>,
     << "T", "r", "o", "u", "b", "l", "e", "s", "h", "o", "o", "t", "i", "n", "g" >> >>

RECURSIVE StructureScore(_, _)
\* The loop of lines 139-143 over the first i entries.
StructureScore(sections, i) ==
  IF i = 0 THEN Triple(0, 25, << >>)
  ELSE Award(StructureScore(sections, i - 1), HasKey(sections, recommended_sections[i]), 5,
             Msg("Missing recommended section", recommended_sections[i], 0))

_score_structure(sections) == StructureScore(sections, Len(recommended_sections))

\* The fence of a code block.
FENCE == << BACKTICK, BACKTICK, BACKTICK >>

RECURSIVE BlocksFrom(_, _)
RECURSIVE BlocksClosed(_, _)
\* The matches of the pattern of line 154 (a fence, anything, the next fence)
\* from the fence at i on, 0 meaning there is none.
BlocksFrom(s, i) == IF i = 0 THEN 0 ELSE BlocksClosed(s, find(s, FENCE, i + 3))

\* The same, j being the fence that closes the block opened.
BlocksClosed(s, j) == IF j = 0 THEN 0 ELSE 1 + BlocksFrom(s, find(s, FENCE, j + 3))

\* len(re.findall(r'[fence].*?[fence]', content, re.DOTALL))
num_code_blocks(content) == BlocksFrom(content, find(content, FENCE, 1))

\* A variant of BlockScore that gives full marks from two blocks on; C16
\* fails under it.
BlockScoreFromTwo(n) ==
  IF n = 0 THEN Triple(0, 30, << Msg("No code examples found", << >>, 0) >>)
  ELSE IF n = 1 THEN Triple(10, 30, << Msg("Only one code example", << >>, 0) >>)
  ELSE Triple(30, 30, << >>)

\* Lines 157-165 on the number of code blocks.
BlockScore(n) ==
  IF n = 0 THEN Triple(0, 30, << Msg("No code examples found", << >>, 0) >>)
  ELSE IF n = 1 THEN Triple(10, 30, << Msg("Only one code example", << >>, 0) >>)
  ELSE IF n = 2 THEN Triple(20, 30, << >>)
  ELSE Triple(30, 30, << >>)

\* Lines 168-177: the issue on the scripts, of which scripts_documented are
\* named in the text.
ScriptIssues(t, scripts, scripts_documented) ==
  IF scripts = {} THEN t
  ELSE IF scripts_documented = 0
  THEN [t EXCEPT !.issues = Append(@, Msg("No examples for bundled scripts", << >>, 0))]
  ELSE IF scripts_documented < Cardinality(scripts)
  THEN [t EXCEPT !.issues = Append(@, Msg("Only some scripts have examples", << >>, scripts_documented))]
  ELSE t

_score_examples(content, scripts) ==
  ScriptIssues(BlockScore(num_code_blocks(content)), scripts,
               Cardinality({ script \in scripts : contains(content, script) }))

vague_terms ==
  { << "s", "o", "m", "e", "t", "h", "i", "n", "g" >>, << "t", "h", "i", "n", "g", "s" >>,
    << "s", "t", "u", "f", "f" >>, << "e", "t", "c", "." >> }

RECURSIVE vague_count(_, _)
\* sum(content_lower.count(term) for term in terms)
vague_count(content_lower, terms) ==
  IF terms = {} THEN 0
  ELSE LET term == CHOOSE t \in terms : TRUE IN
       count(content_lower, term) + vague_count(content_lower, terms \ { term })

\* A variant of Min that leaves the deduction for TODO markers unbounded; C13
\* fails under it.
MinUnbounded(a, b) == b

\* min(a, b)
Min(a, b) == IF a < b THEN a ELSE b

\* A variant of ClarityScore that deducts for vague terms from three on; C17
\* fails under it.
ClarityScoreFromThree(todo_count, vague, cue) ==
  Award(
    Deduct(
      Deduct(Triple(20, 25, << >>), todo_count > 0, Min(10, todo_count * 2),
             Msg("Found TODO markers (incomplete documentation)", << >>, todo_count)),
      vague >= 3, 5, Msg("Contains vague language", << >>, vague)),
    cue, 5, Msg("No 'When to Use' guidance", << >>, 0))

\* Lines 183-206 on the two counts and the cue found or not.
ClarityScore(todo_count, vague, cue) ==
  Award(
    Deduct(
      Deduct(Triple(20, 25, << >>), todo_count > 0, Min(10, todo_count * 2),
             Msg("Found TODO markers (incomplete documentation)", << >>, todo_count)),
      vague > 3, 5, Msg("Contains vague language", << >>, vague)),
    cue, 5, Msg("No 'When to Use' guidance", << >>, 0))

\* Lines 188-201 on content.lower().
ClarityOf(content, content_lower, sections) ==
  ClarityScore(count(content_lower, << "t", "o", "d", "o" >>),
               vague_count(content_lower, vague_terms),
               \/ HasKey(sections, << "W", "h", "e", "n", " ", "t", "o", " ", "U", "s", "e" >>)
               \/ contains(content, << "W", "h", "e", "n", " ", "t", "o", " ", "u", "s", "e" >>))

_score_clarity(content, sections) == ClarityOf(content, lower(content), sections)

\* list.append(x) when cond holds.
AppendIf(list, cond, x) == IF cond THEN Append(list, x) ELSE list

\* A variant of HasReferenceFiles that is content with the directory; C24
\* fails under it.
HasReferenceDir == Exists(D_references)

\* Whether the references directory holds a file matching *.md (line 226).
HasReferenceFiles ==
  Exists(D_references) /\ \E n \in fs.sub[D_references].names : endswith(n, << ".", "m", "d" >>)

\* Lines 213-228 on content.lower().
GapsOf(content, content_lower, sections, scripts) ==
  AppendIf(
    AppendIf(
      AppendIf(
        AppendIf(<< >>,
                 /\ ~contains(content_lower, << "t", "r", "i", "g", "g", "e", "r" >>)
                 /\ ~contains(content_lower, << "a", "c", "t", "i", "v", "a", "t", "e", "d" >>),
                 "No clear activation triggers documented"),
        /\ ~HasKey(sections, << "T", "r", "o", "u", "b", "l", "e", "s", "h", "o", "o", "t", "i", "n", "g" >>)
        /\ ~contains(content_lower, << "t", "r", "o", "u", "b", "l", "e", "s", "h", "o", "o", "t" >>),
        "No troubleshooting section"),
      scripts # {} /\ ~contains(content, D_scripts \o << "/" >>),
      "Scripts exist but aren't documented"),
    HasReferenceFiles /\ ~contains(content, D_references \o << "/" >>),
    "Reference files exist but aren't documented")

_identify_gaps(content, sections, scripts) == GapsOf(content, lower(content), sections, scripts)

\* Lines 237-243: the suggestion on a description under 100 characters.
DescriptionSuggestion(list, frontmatter) ==
  IF HasKey(frontmatter, K_description)
  THEN AppendIf(list, len(ValueOf(frontmatter, K_description)) < 100,
                Msg("Expand description to ~100-150 chars", << >>, len(ValueOf(frontmatter, K_description))))
  ELSE list

\* Lines 246-260.
AdviceOf(content, frontmatter, sections) ==
  AppendIf(
    AppendIf(
      AppendIf(DescriptionSuggestion(<< >>, frontmatter),
               num_code_blocks(content) < 2, Msg("Add more usage examples", << >>, 0)),
      ~HasKey(sections, << "T", "r", "o", "u", "b", "l", "e", "s", "h", "o", "o", "t", "i", "n", "g" >>),
      Msg("Add Troubleshooting section", << >>, 0)),
    ~HasKey(sections, << "B", "e", "s", "t", " ", "P", "r", "a", "c", "t", "i", "c", "e", "s" >>),
    Msg("Add Best Practices section", << >>, 0))

\* _generate_suggestions: the fixed suggestions in order, and the scripts a
\* suggestion is made for, which follow in the order glob() lists them.
_generate_suggestions(content, frontmatter, sections, scripts) ==
  [advice |-> AdviceOf(content, frontmatter, sections),
   scripts |-> { script \in scripts : ~contains(content, script) }]

\* analyze(), lines 77-85, on what the constructor has parsed.
Analysis(content, frontmatter, sections, scripts) ==
  [frontmatter_score |-> _score_frontmatter(frontmatter),
   structure_score |-> _score_structure(sections),
   example_score |-> _score_examples(content, scripts),
   clarity_score |-> _score_clarity(content, sections),
   overall_score |-> 0,
   gaps |-> _identify_gaps(content, sections, scripts),
   suggestions |-> _generate_suggestions(content, frontmatter, sections, scripts)]

analyze(content) ==
  Analysis(content, _parse_frontmatter(content), _parse_sections(content), _find_scripts)

\* The integers t of 0..100 for which (t / 100) * 100, computed in IEEE 754
\* double precision as Python does, falls short of t: 0.29 * 100 is
\* 28.999999999999996, 0.57 * 100 is 56.99999999999999, 0.58 * 100 is
\* 57.99999999999999.  For every other t of 0..100 the product is t.
FloatShort == { 29, 57, 58 }

\* A variant of overall_pct that falls short by two where the product is
\* inexact; C20 fails under it.
overall_pctShortByTwo(total_score, total_max) ==
  IF total_max = 100 /\ total_score \in FloatShort
  THEN total_score - 2
  ELSE (total_score * 100) \div total_max

\* Line 289: int((total_score / total_max) * 100), for total_max = 100 and
\* total_score in 0..100.
overall_pct(total_score, total_max) ==
  IF total_max = 100 /\ total_score \in FloatShort
  THEN total_score - 1
  ELSE (total_score * 100) \div total_max

\* A variant of Band whose thresholds belong to the lower band; C19 fails
\* under it.
BandAbove(pct) ==
  IF pct > 80 THEN "Excellent documentation quality"
  ELSE IF pct > 60 THEN "Good, but could be improved"
  ELSE "Needs significant improvement"

\* Lines 297-302.
Band(pct) ==
  IF pct >= 80 THEN "Excellent documentation quality"
  ELSE IF pct >= 60 THEN "Good, but could be improved"
  ELSE "Needs significant improvement"

\* Lines 295-302 on the two sums.
Overall(analysis, total_score, total_max, pct) ==
  [analysis |-> analysis, total_score |-> total_score, total_max |-> total_max,
   overall_pct |-> pct, band |-> Band(pct)]

Totals(analysis, total_score, total_max) ==
  Overall(analysis, total_score, total_max, overall_pct(total_score, total_max))

\* print_report, lines 274-302, on what analyze() returned: what it prints of
\* the scores.
Report(analysis) ==
  Totals(analysis,
         analysis.frontmatter_score.score + analysis.structure_score.score
           + analysis.example_score.score + analysis.clarity_score.score,
         analysis.frontmatter_score.max_score + analysis.structure_score.max_score
           + analysis.example_score.max_score + analysis.clarity_score.max_score)

print_report(content) == Report(analyze(content))

\* What a process that printed no report leaves.
NoReport == [analysis |-> << >>, total_score |-> 0, total_max |-> 0, overall_pct |-> 0, band |-> ""]

\* ------------------------------------------------------------ the inputs

MaxRuns == 2
MaxTopFiles == 2

\* no frontmatter: the text starts with the body
F_none == << >>

\* an opening delimiter and no closing one
F_unterminated ==
  << "-", "-", "-", "\n", "n", "a", "m", "e", ":", " ", "d", "e", "m", "o", "\n" >>

F_name_only ==
  << "-", "-", "-", "\n", "n", "a", "m", "e", ":", " ", "d", "e", "m", "o", "\n", "-", "-", "-",
     "\n" >>

F_desc_only ==
  << "-", "-", "-", "\n", "d", "e", "s", "c", "r", "i", "p", "t", "i", "o", "n", ":", " ", "U",
     "s", "e", " ", "w", "h", "e", "n", " ", "x*46", " ", "d", "e", "m", "o", "\n", "-", "-",
     "-", "\n" >>

F_short ==
  << "-", "-", "-", "\n", "n", "a", "m", "e", ":", " ", "d", "e", "m", "o", "\n", "d", "e", "s",
     "c", "r", "i", "p", "t", "i", "o", "n", ":", " ", "s", "h", "o", "r", "t", " ", "t", "e",
     "x", "t", "\n", "-", "-", "-", "\n" >>

\* a description of 60 characters
F_ok ==
  << "-", "-", "-", "\n", "n", "a", "m", "e", ":", " ", "d", "e", "m", "o", "\n", "d", "e", "s",
     "c", "r", "i", "p", "t", "i", "o", "n", ":", " ", "U", "s", "e", " ", "w", "h", "e", "n",
     " ", "x*46", " ", "d", "e", "m", "o", "\n", "-", "-", "-", "\n" >>

F_todo ==
  << "-", "-", "-", "\n", "n", "a", "m", "e", ":", " ", "d", "e", "m", "o", "\n", "d", "e", "s",
     "c", "r", "i", "p", "t", "i", "o", "n", ":", " ", "T", "O", "D", "O", " ", "d", "e", "s",
     "c", "r", "i", "b", "e", " ", "x*46", " ", "m", "o", "r", "e", "\n", "-", "-", "-", "\n" >>

\* two extra keys
F_extra ==
  << "-", "-", "-", "\n", "n", "a", "m", "e", ":", " ", "d", "e", "m", "o", "\n", "d", "e", "s",
     "c", "r", "i", "p", "t", "i", "o", "n", ":", " ", "U", "s", "e", " ", "w", "h", "e", "n",
     " ", "x*46", " ", "d", "e", "m", "o", "\n", "l", "i", "c", "e", "n", "s", "e", ":", " ",
     "M", "I", "T", "\n", "v", "e", "r", "s", "i", "o", "n", ":", " ", "v", "1", "\n", "-", "-",
     "-", "\n" >>

\* an extra key that YAML loads as an int
F_intkey ==
  << "-", "-", "-", "\n", "n", "a", "m", "e", ":", " ", "d", "e", "m", "o", "\n", "d", "e", "s",
     "c", "r", "i", "p", "t", "i", "o", "n", ":", " ", "U", "s", "e", " ", "w", "h", "e", "n",
     " ", "x*46", " ", "d", "e", "m", "o", "\n", "2", "0", "2", "4", ":", " ", "x", "\n", "-",
     "-", "-", "\n" >>

F_name_empty ==
  << "-", "-", "-", "\n", "n", "a", "m", "e", ":", "\n", "d", "e", "s", "c", "r", "i", "p", "t",
     "i", "o", "n", ":", " ", "U", "s", "e", " ", "w", "h", "e", "n", " ", "x*46", " ", "d", "e",
     "m", "o", "\n", "-", "-", "-", "\n" >>

F_name_blank ==
  << "-", "-", "-", "\n", "n", "a", "m", "e", ":", " ", "\"", " ", " ", "\"", "\n", "d", "e",
     "s", "c", "r", "i", "p", "t", "i", "o", "n", ":", " ", "U", "s", "e", " ", "w", "h", "e",
     "n", " ", "x*46", " ", "d", "e", "m", "o", "\n", "-", "-", "-", "\n" >>

F_desc_blank ==
  << "-", "-", "-", "\n", "n", "a", "m", "e", ":", " ", "d", "e", "m", "o", "\n", "d", "e", "s",
     "c", "r", "i", "p", "t", "i", "o", "n", ":", " ", " ", " ", "\n", "-", "-", "-", "\n" >>

F_empty ==
  << "-", "-", "-", "\n", "-", "-", "-", "\n" >>

\* a line that is no mapping entry
F_garbage ==
  << "-", "-", "-", "\n", "n", "a", "m", "e", ":", " ", "d", "e", "m", "o", "\n", "g", "a", "r",
     "b", "a", "g", "e", "\n", "-", "-", "-", "\n" >>

F_name_int ==
  << "-", "-", "-", "\n", "n", "a", "m", "e", ":", " ", "1", "2", "3", "\n", "d", "e", "s", "c",
     "r", "i", "p", "t", "i", "o", "n", ":", " ", "U", "s", "e", " ", "w", "h", "e", "n", " ",
     "x*46", " ", "d", "e", "m", "o", "\n", "-", "-", "-", "\n" >>

\* a blank line before the opening delimiter
F_late ==
  << "\n", "-", "-", "-", "\n", "n", "a", "m", "e", ":", " ", "d", "e", "m", "o", "\n", "d", "e",
     "s", "c", "r", "i", "p", "t", "i", "o", "n", ":", " ", "U", "s", "e", " ", "w", "h", "e",
     "n", " ", "x*46", " ", "d", "e", "m", "o", "\n", "-", "-", "-", "\n" >>

F_desc_colon ==
  << "-", "-", "-", "\n", "n", "a", "m", "e", ":", " ", "d", "e", "m", "o", "\n", "d", "e", "s",
     "c", "r", "i", "p", "t", "i", "o", "n", ":", " ", "u", "s", "e", ":", " ", "x*46", " ", "t",
     "h", "i", "s", "\n", "-", "-", "-", "\n" >>

B_demo ==
  << "#", " ", "D", "e", "m", "o", "\n", "T", "O", "D", "O", "\n" >>

B_links ==
  << "S", "e", "e", " ", "[", "g", "u", "i", "d", "e", "]", "(", "r", "e", "f", "e", "r", "e",
     "n", "c", "e", "s", "/", "g", "u", "i", "d", "e", ".", "m", "d", ")", ",", " ", "[", "s",
     "i", "t", "e", "]", "(", "h", "t", "t", "p", "s", ":", "/", "/", "x", ".", "i", "o", ")",
     ",", " ", "[", "t", "o", "p", "]", "(", "#", "d", "e", "m", "o", ")", ".", "\n" >>

B_missing ==
  << "[", "a", "]", "(", "a", ".", "m", "d", ")", " ", "a", "n", "d", " ", "[", "b", "]", "(",
     "b", ".", "m", "d", ")", "\n" >>

B_code ==
  << "R", "u", "n", " ", BACKTICK, "s", "c", "r", "i", "p", "t", "s", "/", "e", "x", "a", "m",
     "p", "l", "e", ".", "p", "y", BACKTICK, " ", "n", "o", "w", "\n" >>

B_you ==
  << "Y", "o", "u", " ", "s", "h", "o", "u", "l", "d", " ", "r", "u", "n", " ", "i", "t", ".",
     "\n", "y", "o", "u", " ", "c", "a", "n", " ", "*", "*", "s", "t", "o", "p", "*", "*", " ",
     "i", "t", ".", "\n" >>

\* 20007 characters
B_big ==
  << "#", " ", "B", "i", "g", "\n", "x*20000", "\n" >>

Frontmatters ==
  { F_none, F_unterminated, F_name_only, F_desc_only, F_short, F_ok, F_todo, F_extra, F_intkey, F_name_empty, F_name_blank, F_desc_blank, F_empty, F_garbage, F_name_int, F_late, F_desc_colon }

Bodies == { B_demo, B_links, B_missing, B_code, B_you, B_big }

\* Bodies that bring the text under F_ok to 20003 and to 20004 characters, and
\* to 500 and to 501 lines.
B_tokens_5000 == << "x*19909", "\n" >>
B_tokens_5001 == << "x", "x*19909", "\n" >>
B_lines_500 == << "xline*496" >>
B_lines_501 == << "x", "\n", "xline*496" >>

SizedDocs == { F_ok \o b : b \in { B_tokens_5000, B_tokens_5001, B_lines_500, B_lines_501 } }

\* The texts of SKILL.md: a frontmatter, or none, and a body.
Docs == { f \o b : f \in Frontmatters, b \in Bodies }

CoreDocs == { F_ok \o B_demo, F_name_only \o B_demo, F_intkey \o B_demo }

\* Names a skill directory may hold at its top level: README.md, the four
\* names of extraneous_files, one of them in lower case, and other files.
TopNames ==
  { README_MD, extraneous_files[1], extraneous_files[2], extraneous_files[3], extraneous_files[4],
    lower(extraneous_files[3]), << "a", ".", "m", "d" >>, << ".", "e", "n", "v" >> }

Dir(names) == [exists |-> TRUE, names |-> names]
NoDir == [exists |-> FALSE, names |-> {}]
EXAMPLE_PY == << "e", "x", "a", "m", "p", "l", "e", ".", "p", "y" >>
GUIDE_MD == << "g", "u", "i", "d", "e", ".", "m", "d" >>
LOGO_PNG == << "l", "o", "g", "o", ".", "p", "n", "g" >>

Subs(scripts, references, assets) ==
  [d \in SubdirNames |-> IF d = D_scripts THEN scripts ELSE IF d = D_references THEN references ELSE assets]

NoSubs == Subs(NoDir, NoDir, NoDir)

SubChoices ==
  { Subs(s, r, a) : s \in { NoDir, Dir({}), Dir({ EXAMPLE_PY }) },
                    r \in { NoDir, Dir({}), Dir({ GUIDE_MD }) },
                    a \in { NoDir, Dir({}), Dir({ README_MD }), Dir({ README_MD, LOGO_PNG }) } }

SkillDir(text, files, sub) ==
  [dir |-> "dir", md_exists |-> TRUE, md_text |-> text, files |-> files, sub |-> sub]

BaseTrees ==
  { [files |-> {}, sub |-> NoSubs],
    [files |-> { README_MD, extraneous_files[3] },
     sub |-> Subs(Dir({ EXAMPLE_PY }), Dir({ GUIDE_MD }), Dir({ README_MD }))] }

\* name and a short description: 10
S_short ==
  << "-", "-", "-", "\n", "n", "a", "m", "e", ":", " ", "d", "e", "m", "o", "\n", "d", "e", "s",
     "c", "r", "i", "p", "t", "i", "o", "n", ":", " ", "s", "h", "o", "r", "t", " ", "t", "e",
     "x", "t", "\n", "-", "-", "-", "\n" >>

\* a description of exactly 50 characters
S_len50 ==
  << "-", "-", "-", "\n", "n", "a", "m", "e", ":", " ", "d", "e", "m", "o", "\n", "d", "e", "s",
     "c", "r", "i", "p", "t", "i", "o", "n", ":", " ", "D", "e", "m", "o", "x*46", "\n", "-",
     "-", "-", "\n" >>

\* a description of 51 characters
S_len51 ==
  << "-", "-", "-", "\n", "n", "a", "m", "e", ":", " ", "d", "e", "m", "o", "\n", "d", "e", "s",
     "c", "r", "i", "p", "t", "i", "o", "n", ":", " ", "D", "e", "m", "o", "s", "x*46", "\n",
     "-", "-", "-", "\n" >>

\* a description of exactly 100 characters holding a trigger keyword
S_len100 ==
  << "-", "-", "-", "\n", "n", "a", "m", "e", ":", " ", "d", "e", "m", "o", "\n", "d", "e", "s",
     "c", "r", "i", "p", "t", "i", "o", "n", ":", " ", "t", "r", "i", "g", "g", "e", "r", " ",
     "x*46", "x*46", "\n", "-", "-", "-", "\n" >>

\* a trigger keyword in upper case
S_upper ==
  << "-", "-", "-", "\n", "n", "a", "m", "e", ":", " ", "d", "e", "m", "o", "\n", "d", "e", "s",
     "c", "r", "i", "p", "t", "i", "o", "n", ":", " ", "R", "u", "n", " ", "W", "H", "E", "N",
     " ", "a", "s", "k", "e", "d", "\n", "-", "-", "-", "\n" >>

\* no name, and a description holding TODO
S_todo_only ==
  << "-", "-", "-", "\n", "d", "e", "s", "c", "r", "i", "p", "t", "i", "o", "n", ":", " ", "T",
     "O", "D", "O", "\n", "-", "-", "-", "\n" >>

S_todo_long ==
  << "-", "-", "-", "\n", "n", "a", "m", "e", ":", " ", "d", "e", "m", "o", "\n", "d", "e", "s",
     "c", "r", "i", "p", "t", "i", "o", "n", ":", " ", "T", "O", "D", "O", " ", "t", "r", "i",
     "g", "g", "e", "r", " ", "x*46", "\n", "-", "-", "-", "\n" >>

\* todo in lower case
S_todo_lower ==
  << "-", "-", "-", "\n", "n", "a", "m", "e", ":", " ", "d", "e", "m", "o", "\n", "d", "e", "s",
     "c", "r", "i", "p", "t", "i", "o", "n", ":", " ", "t", "o", "d", "o", " ", "l", "a", "t",
     "e", "r", "\n", "-", "-", "-", "\n" >>

\* a description that is present and empty
S_desc_empty ==
  << "-", "-", "-", "\n", "n", "a", "m", "e", ":", " ", "d", "e", "m", "o", "\n", "d", "e", "s",
     "c", "r", "i", "p", "t", "i", "o", "n", ":", "\n", "-", "-", "-", "\n" >>

T_plain ==
  << "#", " ", "D", "e", "m", "o", "\n", "T", "e", "x", "t", "\n" >>

T_overview ==
  << "#", "#", " ", "O", "v", "e", "r", "v", "i", "e", "w", "\n", "T", "e", "x", "t", "\n" >>

T_purpose ==
  << "#", "#", " ", "P", "u", "r", "p", "o", "s", "e", "\n", "T", "e", "x", "t", "\n" >>

T_all ==
  << "#", "#", " ", "P", "u", "r", "p", "o", "s", "e", "\n", "a", "\n", "#", "#", " ", "U", "s",
     "a", "g", "e", "\n", "b", "\n", "#", "#", " ", "B", "u", "n", "d", "l", "e", "d", " ", "R",
     "e", "s", "o", "u", "r", "c", "e", "s", "\n", "c", "\n", "#", "#", " ", "B", "e", "s", "t",
     " ", "P", "r", "a", "c", "t", "i", "c", "e", "s", "\n", "d", "\n", "#", "#", " ", "T", "r",
     "o", "u", "b", "l", "e", "s", "h", "o", "o", "t", "i", "n", "g", "\n", "e", "\n" >>

\* one title after stripping; the other lines are no second-level heading or have no title
T_titles ==
  << "#", "#", "#", " ", "P", "u", "r", "p", "o", "s", "e", "\n", "#", "#", "U", "s", "a", "g",
     "e", "\n", "#", "#", " ", "\n", "#", "#", " ", "B", "e", "s", "t", " ", "P", "r", "a", "c",
     "t", "i", "c", "e", "s", " ", " ", "\n", "t", "e", "x", "t", "\n" >>

T_ex1 ==
  << BACKTICK, BACKTICK, BACKTICK, "\n", "a", "\n", BACKTICK, BACKTICK, BACKTICK, "\n" >>

T_ex2 ==
  << BACKTICK, BACKTICK, BACKTICK, "\n", "a", "\n", BACKTICK, BACKTICK, BACKTICK, "\n", BACKTICK,
     BACKTICK, BACKTICK, "\n", "r", "u", "n", "\n", BACKTICK, BACKTICK, BACKTICK, "\n" >>

\* three blocks, one empty, one on a single line
T_ex3 ==
  << BACKTICK, BACKTICK, BACKTICK, "\n", "a", "\n", BACKTICK, BACKTICK, BACKTICK, "\n", BACKTICK,
     BACKTICK, BACKTICK, "\n", "\n", BACKTICK, BACKTICK, BACKTICK, "\n", BACKTICK, BACKTICK,
     BACKTICK, "s", "h", " ", "b", BACKTICK, BACKTICK, BACKTICK, "\n" >>

T_ex4 ==
  << BACKTICK, BACKTICK, BACKTICK, "\n", "a", "\n", BACKTICK, BACKTICK, BACKTICK, "\n", BACKTICK,
     BACKTICK, BACKTICK, "\n", "b", "\n", BACKTICK, BACKTICK, BACKTICK, "\n", BACKTICK, BACKTICK,
     BACKTICK, "\n", "c", "\n", BACKTICK, BACKTICK, BACKTICK, "\n", BACKTICK, BACKTICK, BACKTICK,
     "\n", "d", "\n", BACKTICK, BACKTICK, BACKTICK, "\n" >>

\* a block and a fence that is never closed
T_ex_open ==
  << BACKTICK, BACKTICK, BACKTICK, "\n", "a", "\n", BACKTICK, BACKTICK, BACKTICK, "\n", BACKTICK,
     BACKTICK, BACKTICK, "\n", "b", "\n" >>

T_ex_named ==
  << "R", "u", "n", " ", "e", "x", "a", "m", "p", "l", "e", ".", "p", "y", ":", "\n", BACKTICK,
     BACKTICK, BACKTICK, "\n", "a", "\n", BACKTICK, BACKTICK, BACKTICK, "\n", BACKTICK, BACKTICK,
     BACKTICK, "\n", "b", "\n", BACKTICK, BACKTICK, BACKTICK, "\n", BACKTICK, BACKTICK, BACKTICK,
     "\n", "c", "\n", BACKTICK, BACKTICK, BACKTICK, "\n" >>

T_todo1 ==
  << "T", "O", "D", "O", "\n" >>

T_todo5 ==
  << "T", "O", "D", "O", " ", "T", "O", "D", "O", " ", "T", "O", "D", "O", " ", "T", "O", "D",
     "O", " ", "T", "O", "D", "O", "\n" >>

T_todo6 ==
  << "T", "O", "D", "O", " ", "T", "O", "D", "O", " ", "T", "O", "D", "O", " ", "T", "O", "D",
     "O", " ", "T", "O", "D", "O", " ", "T", "O", "D", "O", "\n" >>

T_todo13 ==
  << "T", "O", "D", "O", " ", "T", "O", "D", "O", " ", "T", "O", "D", "O", " ", "T", "O", "D",
     "O", " ", "T", "O", "D", "O", " ", "T", "O", "D", "O", " ", "T", "O", "D", "O", " ", "T",
     "O", "D", "O", " ", "T", "O", "D", "O", " ", "T", "O", "D", "O", " ", "T", "O", "D", "O",
     " ", "T", "O", "D", "O", " ", "T", "O", "D", "O", "\n" >>

T_todo_mixed ==
  << "T", "o", "d", "o", ",", " ", "t", "o", "d", "o", " ", "a", "n", "d", " ", "T", "O", "D",
     "O", "\n" >>

T_vague3 ==
  << "s", "o", "m", "e", "t", "h", "i", "n", "g", ",", " ", "t", "h", "i", "n", "g", "s", ",",
     " ", "s", "t", "u", "f", "f", "\n" >>

T_vague4 ==
  << "S", "o", "m", "e", "t", "h", "i", "n", "g", ",", " ", "t", "h", "i", "n", "g", "s", ",",
     " ", "S", "T", "U", "F", "F", " ", "e", "t", "c", ".", "\n" >>

\* five TODO and four vague terms
T_worst ==
  << "T", "O", "D", "O", " ", "T", "O", "D", "O", " ", "T", "O", "D", "O", " ", "T", "O", "D",
     "O", " ", "T", "O", "D", "O", " ", "t", "h", "i", "n", "g", "s", " ", "t", "h", "i", "n",
     "g", "s", " ", "t", "h", "i", "n", "g", "s", " ", "t", "h", "i", "n", "g", "s", "\n" >>

T_cue_section ==
  << "#", "#", " ", "W", "h", "e", "n", " ", "t", "o", " ", "U", "s", "e", "\n", "A", "l", "w",
     "a", "y", "s", ".", "\n" >>

T_cue_text ==
  << "W", "h", "e", "n", " ", "t", "o", " ", "u", "s", "e", " ", "i", "t", ":", " ", "a", "l",
     "w", "a", "y", "s", ".", "\n" >>

T_cue_lower ==
  << "K", "n", "o", "w", " ", "w", "h", "e", "n", " ", "t", "o", " ", "u", "s", "e", " ", "i",
     "t", ".", "\n" >>

T_cue_title ==
  << "S", "e", "e", " ", "W", "h", "e", "n", " ", "t", "o", " ", "U", "s", "e", " ", "b", "e",
     "l", "o", "w", ".", "\n" >>

\* with a name only: 5 + 0 + 10 + 14 = 29
T_t29 ==
  << BACKTICK, BACKTICK, BACKTICK, "\n", "a", "\n", BACKTICK, BACKTICK, BACKTICK, "\n", "T", "O",
     "D", "O", " ", "T", "O", "D", "O", " ", "T", "O", "D", "O", "\n" >>

\* with 20 for the frontmatter: 20 + 0 + 20 + 17 = 57
T_t57 ==
  << BACKTICK, BACKTICK, BACKTICK, "\n", "a", "\n", BACKTICK, BACKTICK, BACKTICK, "\n", BACKTICK,
     BACKTICK, BACKTICK, "\n", "b", "\n", BACKTICK, BACKTICK, BACKTICK, "\n", "T", "O", "D", "O",
     " ", "T", "O", "D", "O", " ", "T", "O", "D", "O", " ", "T", "O", "D", "O", "\n", "W", "h",
     "e", "n", " ", "t", "o", " ", "u", "s", "e", " ", "i", "t", "\n" >>

\* 20 + 0 + 20 + 18 = 58
T_t58 ==
  << BACKTICK, BACKTICK, BACKTICK, "\n", "a", "\n", BACKTICK, BACKTICK, BACKTICK, "\n", BACKTICK,
     BACKTICK, BACKTICK, "\n", "b", "\n", BACKTICK, BACKTICK, BACKTICK, "\n", "T", "O", "D", "O",
     "\n" >>

\* 20 + 0 + 20 + 19 = 59
T_t59 ==
  << BACKTICK, BACKTICK, BACKTICK, "\n", "a", "\n", BACKTICK, BACKTICK, BACKTICK, "\n", BACKTICK,
     BACKTICK, BACKTICK, "\n", "b", "\n", BACKTICK, BACKTICK, BACKTICK, "\n", "T", "O", "D", "O",
     " ", "T", "O", "D", "O", " ", "T", "O", "D", "O", "\n", "W", "h", "e", "n", " ", "t", "o",
     " ", "u", "s", "e", " ", "i", "t", "\n" >>

\* 20 + 0 + 20 + 20 = 60
T_t60 ==
  << BACKTICK, BACKTICK, BACKTICK, "\n", "a", "\n", BACKTICK, BACKTICK, BACKTICK, "\n", BACKTICK,
     BACKTICK, BACKTICK, "\n", "b", "\n", BACKTICK, BACKTICK, BACKTICK, "\n" >>

\* 20 + 25 + 20 + 14 = 79
T_t79 ==
  << "#", "#", " ", "P", "u", "r", "p", "o", "s", "e", "\n", "a", "\n", "#", "#", " ", "U", "s",
     "a", "g", "e", "\n", "b", "\n", "#", "#", " ", "B", "u", "n", "d", "l", "e", "d", " ", "R",
     "e", "s", "o", "u", "r", "c", "e", "s", "\n", "c", "\n", "#", "#", " ", "B", "e", "s", "t",
     " ", "P", "r", "a", "c", "t", "i", "c", "e", "s", "\n", "d", "\n", "#", "#", " ", "T", "r",
     "o", "u", "b", "l", "e", "s", "h", "o", "o", "t", "i", "n", "g", "\n", "e", "\n", BACKTICK,
     BACKTICK, BACKTICK, "\n", "a", "\n", BACKTICK, BACKTICK, BACKTICK, "\n", BACKTICK, BACKTICK,
     BACKTICK, "\n", "b", "\n", BACKTICK, BACKTICK, BACKTICK, "\n", "T", "O", "D", "O", " ", "T",
     "O", "D", "O", " ", "T", "O", "D", "O", "\n" >>

\* 20 + 25 + 10 + 25 = 80
T_t80 ==
  << "#", "#", " ", "P", "u", "r", "p", "o", "s", "e", "\n", "a", "\n", "#", "#", " ", "U", "s",
     "a", "g", "e", "\n", "b", "\n", "#", "#", " ", "B", "u", "n", "d", "l", "e", "d", " ", "R",
     "e", "s", "o", "u", "r", "c", "e", "s", "\n", "c", "\n", "#", "#", " ", "B", "e", "s", "t",
     " ", "P", "r", "a", "c", "t", "i", "c", "e", "s", "\n", "d", "\n", "#", "#", " ", "T", "r",
     "o", "u", "b", "l", "e", "s", "h", "o", "o", "t", "i", "n", "g", "\n", "e", "\n", BACKTICK,
     BACKTICK, BACKTICK, "\n", "a", "\n", BACKTICK, BACKTICK, BACKTICK, "\n", "W", "h", "e", "n",
     " ", "t", "o", " ", "u", "s", "e", " ", "i", "t", "\n" >>

\* 20 + 25 + 30 + 25 = 100
T_t100 ==
  << "#", "#", " ", "P", "u", "r", "p", "o", "s", "e", "\n", "a", "\n", "#", "#", " ", "U", "s",
     "a", "g", "e", "\n", "b", "\n", "#", "#", " ", "B", "u", "n", "d", "l", "e", "d", " ", "R",
     "e", "s", "o", "u", "r", "c", "e", "s", "\n", "c", "\n", "#", "#", " ", "B", "e", "s", "t",
     " ", "P", "r", "a", "c", "t", "i", "c", "e", "s", "\n", "d", "\n", "#", "#", " ", "T", "r",
     "o", "u", "b", "l", "e", "s", "h", "o", "o", "t", "i", "n", "g", "\n", "e", "\n", "#", "#",
     " ", "W", "h", "e", "n", " ", "t", "o", " ", "U", "s", "e", "\n", BACKTICK, BACKTICK,
     BACKTICK, "\n", "a", "\n", BACKTICK, BACKTICK, BACKTICK, "\n", BACKTICK, BACKTICK, BACKTICK,
     "\n", "b", "\n", BACKTICK, BACKTICK, BACKTICK, "\n", BACKTICK, BACKTICK, BACKTICK, "\n",
     "c", "\n", BACKTICK, BACKTICK, BACKTICK, "\n" >>

\* Words of the gaps in another case and form.
T_gap_words ==
  << "A", "c", "t", "i", "v", "a", "t", "e", "d", " ", "b", "y", " ", "h", "a", "n", "d", ".",
     "\n", "T", "o", " ", "t", "r", "o", "u", "b", "l", "e", "s", "h", "o", "o", "t", ",", " ",
     "a", "s", "k", ".", "\n" >>

\* A first-level heading inside a section.
T_h1_inside ==
  << "#", "#", " ", "U", "s", "a", "g", "e", "\n", "a", "\n", "#", " ", "T", "i", "t", "l", "e",
     "\n", "b", "\n" >>

\* Two sections of the same title.
T_dup ==
  << "#", "#", " ", "U", "s", "a", "g", "e", "\n", "a", "\n", "#", "#", " ", "U", "s", "a", "g",
     "e", "\n", "d", "\n" >>

\* A key on two lines, blanks around key and value, a line without colon and a
\* value holding a colon.
S_dup ==
  << "-", "-", "-", "\n", "n", "a", "m", "e", ":", " ", "a", "\n", " ", " ", "n", "a", "m", "e",
     " ", ":", " ", " ", "d", "e", "m", "o", " ", " ", "\n", "g", "a", "r", "b", "a", "g", "e",
     "\n", "d", "e", "s", "c", "r", "i", "p", "t", "i", "o", "n", ":", " ", "o", "n", "e", ":",
     " ", "t", "w", "o", "\n", "-", "-", "-", "\n" >>

TOOL_PY == << "t", "o", "o", "l", ".", "p", "y" >>
NOTES_TXT == << "n", "o", "t", "e", "s", ".", "t", "x", "t" >>

\* The frontmatters the scorer is run on, each with the plain body.
ScoredFrontmatters ==
  { S_short, S_len50, S_len51, S_len100, S_upper, S_todo_only, S_todo_long, S_todo_lower,
    S_desc_empty, S_dup }

\* The bodies the scorer is run on, each after the frontmatter that scores 20.
ScoredBodies ==
  { T_overview, T_purpose, T_all, T_titles, T_ex1, T_ex2, T_ex3, T_ex4, T_ex_open, T_ex_named,
    T_todo1, T_todo5, T_todo6, T_todo13, T_todo_mixed, T_vague3, T_vague4, T_worst,
    T_cue_section, T_cue_text, T_cue_lower, T_cue_title, T_t29, T_t57, T_t58, T_t59, T_t60,
    T_t79, T_t80, T_t100 }

ScoredDocs ==
  { f \o T_plain : f \in ScoredFrontmatters }
  \cup { S_len100 \o b : b \in ScoredBodies }
  \cup { b : b \in { T_all, T_ex3, T_worst, T_cue_section, T_h1_inside, T_dup } }
  \cup { F_name_only \o T_t29 }

\* The scripts directories the scorer is run on.
ScriptChoices ==
  { Subs(Dir(n), NoDir, NoDir) : n \in { { EXAMPLE_PY }, { EXAMPLE_PY, TOOL_PY }, { NOTES_TXT } } }

ScoredDirs ==
  { SkillDir(d, {}, NoSubs) : d \in ScoredDocs }
  \cup { SkillDir(S_len100 \o b, {}, s) : b \in { T_ex_named, T_ex3, T_plain }, s \in ScriptChoices }
  \cup { SkillDir(T_gap_words, {}, s) :
         s \in { NoSubs, Subs(Dir({ EXAMPLE_PY }), Dir({ GUIDE_MD }), NoDir),
                 Subs(Dir({ NOTES_TXT }), Dir({ LOGO_PNG }), NoDir) } }

\* The skill directories a process is started on.
SkillDirs ==
  { SkillDir(d, t.files, t.sub) : d \in Docs, t \in BaseTrees }
  \cup { SkillDir(d, f, NoSubs) : d \in CoreDocs,
         f \in { x \in SUBSET TopNames : Cardinality(x) <= MaxTopFiles } }
  \cup { SkillDir(F_ok \o B_demo, {}, s) : s \in SubChoices }
  \cup { SkillDir(d, {}, NoSubs) : d \in SizedDocs }
  \cup ScoredDirs
  \cup { [dir |-> "dir", md_exists |-> FALSE, md_text |-> << >>, files |-> f, sub |-> s] :
         f \in { {}, { README_MD }, { extraneous_files[3] } },
         s \in { NoSubs, Subs(NoDir, NoDir, Dir({ README_MD })) } }
  \cup { [dir |-> k, md_exists |-> FALSE, md_text |-> << >>, files |-> {}, sub |-> NoSubs] :
         k \in { "missing", "file" } }

\* ----------------------------------------------------------- the processes

\* What a process that ended leaves behind: its exit status and what it printed.
Result(c, code, ret, v, lo, fm) ==
  [cmd |-> c, exit_code |-> code, ret |-> ret, errors |-> v.errors, warnings |-> v.warnings,
   issues |-> lo.issues, suggestions |-> lo.suggestions, frontmatter |-> fm, sections |-> << >>,
   report |-> NoReport]

\* The result of a process that parsed the sections and printed the report rep.
Reported(r, sections, rep) == [r EXCEPT !.sections = sections, !.report = rep]

NoLint == [issues |-> << >>, suggestions |-> << >>]
NoResult == Result("none", 0, "", SkillValidator, NoLint, << >>)
NoArchive == [exists |-> FALSE, writes |-> 0, members |-> {}]

Init ==
  /\ fs \in SkillDirs
  /\ archive = NoArchive
  /\ cmd = "idle"
  /\ pc = "idle"
  /\ validator = SkillValidator
  /\ is_valid = ""
  /\ last = NoResult
  /\ prev = NoResult
  /\ nruns = 0

\* A session runs MaxRuns command lines on the skill directory, one process
\* after the other.
CanStart == pc = "idle" /\ nruns < MaxRuns

\* The process ends: sys.exit(code), or the interpreter ending on an uncaught
\* exception with status 1.
Exit(r) ==
  /\ last' = r
  /\ prev' = last
  /\ cmd' = "idle"
  /\ pc' = "idle"

\* Whether validate() came back, with True or False.
HasReturned(ret) == ret \in { "True", "False" }

\* A variant of Aborts that lets every validation through; C8 fails under it.
AbortsNever(valid) == FALSE

\* package_skill.main, line 276: not is_valid.
Aborts(valid) == valid # "True"

\* package_skill.main, lines 272-279, r being how validate() ended: an
\* uncaught exception ends the process, a failed validation exits with 1, a
\* passed one goes on to the packaging.
MainValidated(r) ==
  /\ validator' = [errors |-> r.errors, warnings |-> r.warnings]
  /\ is_valid' = r.ret
  /\ IF HasReturned(r.ret) /\ ~Aborts(r.ret)
     THEN /\ cmd' = "package"
          /\ pc' = "packaging"
          /\ UNCHANGED << last, prev >>
     ELSE Exit(Result("package", 1, r.ret, r, NoLint, << >>))

\* package_skill.main, lines 253-279: the path checks, validate(),
\* print_results() and the exit on a failed validation.
MainValidate ==
  /\ CanStart
  /\ nruns' = nruns + 1
  /\ UNCHANGED << fs, archive >>
  /\ IF fs.dir # "dir"
     THEN /\ Exit(Result("package", 1, "", SkillValidator, NoLint, << >>))
          /\ UNCHANGED << validator, is_valid >>
     ELSE \E r \in validate(SkillValidator) : MainValidated(r)

\* package_skill.main, lines 281-288: the archive is written and the process
\* ends with status 0.
MainPackage ==
  /\ cmd = "package" /\ pc = "packaging"
  /\ archive' = package_skill
  /\ Exit(Result("package", 0, is_valid, validator, NoLint, << >>))
  /\ UNCHANGED << fs, validator, is_valid, nruns >>

\* forge.py validate, lines 134-138, r being how validate() ended.
ForgeValidated(r) ==
  /\ validator' = [errors |-> r.errors, warnings |-> r.warnings]
  /\ is_valid' = r.ret
  /\ Exit(Result("validate", IF r.ret = "True" THEN 0 ELSE 1, r.ret, r, NoLint, << >>))

\* forge.py validate <skill_path>
ForgeValidate ==
  /\ CanStart
  /\ nruns' = nruns + 1
  /\ UNCHANGED << fs, archive >>
  /\ \E r \in validate(SkillValidator) : ForgeValidated(r)

\* forge.py lint <skill_path>
ForgeLint ==
  /\ CanStart
  /\ nruns' = nruns + 1
  /\ UNCHANGED << fs, archive, validator, is_valid >>
  /\ IF ~Exists(SKILL_MD)
     THEN Exit(Result("lint", 1, "", SkillValidator, NoLint, << >>))
     ELSE Exit(Result("lint", 0, "", SkillValidator, lint(read_text), << >>))

\* A variant of AnalyzerMain that gives up on a document whose frontmatter
\* yields no entry; C22 fails under it.
AnalyzerMainStrict ==
  /\ CanStart
  /\ nruns' = nruns + 1
  /\ UNCHANGED << fs, archive, validator, is_valid >>
  /\ IF ~Exists(SKILL_MD) \/ _parse_frontmatter(read_text) = << >>
     THEN Exit(Result("analyze", 1, "FileNotFoundError", SkillValidator, NoLint, << >>))
     ELSE Exit(Reported(Result("analyze", 0, "", SkillValidator, NoLint, _parse_frontmatter(read_text)),
                        _parse_sections(read_text), print_report(read_text)))

\* doc_analyzer.py <skill_path>, lines 360-371: the constructor, which reads
\* and parses SKILL.md, and print_report().
AnalyzerMain ==
  /\ CanStart
  /\ nruns' = nruns + 1
  /\ UNCHANGED << fs, archive, validator, is_valid >>
  /\ IF ~Exists(SKILL_MD)
     THEN Exit(Result("analyze", 1, "FileNotFoundError", SkillValidator, NoLint, << >>))
     ELSE Exit(Reported(Result("analyze", 0, "", SkillValidator, NoLint, _parse_frontmatter(read_text)),
                        _parse_sections(read_text), print_report(read_text)))

Next == MainValidate \/ MainPackage \/ ForgeValidate \/ ForgeLint \/ AnalyzerMain

Spec == Init /\ [][Next]_vars

\* ------------------------------------------------------------ properties

\* The validator of the last process that called validate() is in validator,
\* and what validate() came to in is_valid ("" before any call).
Called == is_valid # ""

\* The processes whose results the state holds.
Ended == { r \in { prev, last } : r.cmd # "none" }

HasDocument == fs.dir = "dir" /\ fs.md_exists

\* The frontmatter block as the validator loads it, kind "none" when the text
\* has no block between two delimiters.
LoadedParts(parts) ==
  IF Len(parts) < 3 THEN [kind |-> "none", d |-> << >>] ELSE safe_load(parts[2])

Loaded ==
  IF HasDocument /\ startswith(fs.md_text, DELIM)
  THEN LoadedParts(split(fs.md_text, DELIM, 2))
  ELSE [kind |-> "none", d |-> << >>]

HasWarning(kind) == \E i \in 1..Len(validator.warnings) : validator.warnings[i].kind = kind

\* C1: validate() returns true if and only if the errors list is empty when it
\* returns, whatever the warnings list holds.
C1_ValidIffNoErrors ==
  HasReturned(is_valid) => (is_valid = "True" <=> validator.errors = << >>)

\* validate() returned true with warnings collected.
C1_Witness == is_valid = "True" /\ validator.warnings # << >> /\ validator.errors = << >>

\* C2: when validation fails with an error, the soft rules have still run: the
\* README.md warning and the size warning that the document and the tree call
\* for are among the warnings.
C2_SoftRulesRunAfterHardRule ==
  (HasDocument /\ is_valid = "False") =>
    /\ Exists(README_MD) => HasWarning("README.md found")
    /\ len(fs.md_text) \div CharsPerToken > TokenLimit => HasWarning("SKILL.md is large")

\* C3: two runs of the same command on the unmodified skill directory end with
\* identical results: the same errors and the same warnings in the same order.
C3_RepeatedRunsAgree ==
  (prev.cmd # "none" /\ prev.cmd = last.cmd) => prev = last

NoOpeningDelimiter == HasDocument /\ ~startswith(fs.md_text, DELIM)

\* C4: for a document that does not begin with the three-dash delimiter, the
\* metadata the scorer parses is the empty mapping, and the validator fails
\* with exactly one error, the one on the missing frontmatter.
C4_NoOpeningDelimiter ==
  NoOpeningDelimiter =>
    /\ \A r \in Ended : r.cmd = "analyze" => r.frontmatter = << >>
    /\ Called =>
         /\ is_valid = "False"
         /\ validator.errors = << Msg("SKILL.md must start with YAML frontmatter (---)", << >>, 0) >>

\* The scorer and then the validator have run on a document that has its
\* frontmatter after a blank line, next to a file of the deny list.
C4_Witness ==
  /\ NoOpeningDelimiter
  /\ contains(fs.md_text, DELIM)
  /\ extraneous_files[3] \in fs.files
  /\ prev.cmd = "analyze" /\ prev.frontmatter = << >>
  /\ last.cmd = "validate" /\ last.ret = "False" /\ Len(last.errors) = 1

\* A value that is empty or whitespace only.
Blank(v) == v.t = "NoneType" \/ (v.t = "str" /\ strip(v.s) = << >>)

\* The metadata lacks a required key, or holds it with a blank value.
MissingRequired(fm) ==
  /\ fm.kind \in { "dict", "NoneType", "scalar" }
  /\ \E key \in { K_name, K_description } : ~DictHas(fm.d, key) \/ Blank(DictGet(fm.d, key))

NameOnly == HasDocument /\ startswith(fs.md_text, F_name_only)

\* C5: validation fails with an error whenever the metadata has no name key, no
\* description key, or a blank value for either; frontmatter that holds only
\* name: demo gives exactly one error, the missing description, and exit code 1.
C5_RequiredFields ==
  /\ (Called /\ MissingRequired(Loaded)) => (is_valid = "False" /\ Len(validator.errors) >= 1)
  /\ (Called /\ NameOnly) =>
       validator.errors = << Msg("Frontmatter missing required 'description' field", << >>, 0) >>
  /\ NameOnly => \A r \in Ended : r.cmd \in { "validate", "package" } => r.exit_code = 1

\* The validate command has ended on the name-only document with README.md
\* beside it.
C5_Witness ==
  /\ NameOnly /\ README_MD \in fs.files
  /\ last.cmd = "validate" /\ last.exit_code = 1 /\ Len(last.errors) = 1

\* Frontmatter that breaks no hard rule: a mapping with a non-empty string for
\* name and for description.
ValidFrontmatter == Loaded.kind = "dict" /\ RequiredFieldError(Loaded) = NoMsg

DenyListed == { extraneous_files[i] : i \in 1..Len(extraneous_files) }

\* C6: for a document with valid frontmatter the errors are one for each file
\* of the deny list that the skill directory holds, and no other: as many
\* errors as such files, and a failed validation when there is one.
C6_DenyListedFiles ==
  (Called /\ ValidFrontmatter) =>
    /\ Len(validator.errors) = Cardinality(DenyListed \cap fs.files)
    /\ \A f \in DenyListed \cap fs.files :
         \E i \in 1..Len(validator.errors) : validator.errors[i].arg = f
    /\ DenyListed \cap fs.files # {} => is_valid = "False"

NoHardRule == HasDocument /\ ValidFrontmatter /\ DenyListed \cap fs.files = {}

\* C7: when no hard rule fires, validate() returns true and the validate
\* command exits with 0, whichever soft rules fire, and the errors stay empty.
C7_SoftRulesNeverFail ==
  NoHardRule =>
    \A r \in Ended : r.cmd = "validate" => (r.ret = "True" /\ r.exit_code = 0 /\ r.errors = << >>)

\* One step of package_skill.main seen from the archive.
C8_Step ==
  /\ archive' # archive => (cmd = "package" /\ is_valid = "True" /\ archive'.exists)
  /\ (cmd' = "package" /\ pc' = "packaging") => is_valid' = "True"
  /\ (last' # last /\ last'.cmd = "package" /\ last'.ret = "False") =>
       (archive' = archive /\ last'.exit_code = 1)
  /\ (pc = "packaging" /\ pc' = "idle") =>
       (archive'.writes = archive.writes + 1 /\ last'.ret = "True" /\ last'.exit_code = 0)

C9_ExitCodeMatchesErrors ==
  \A r \in Ended : r.cmd = "validate" =>
    /\ r.exit_code = 0 <=> r.errors = << >>
    /\ r.exit_code \in { 0, 1 }
    /\ ~Exists(SKILL_MD) => (r.exit_code = 1 /\ Len(r.errors) = 1 /\ r.warnings = << >>)

\* A companion directory that exists and holds nothing, or assets holding
\* README.md alone.
EmptyOrPlaceholder(d) ==
  /\ fs.sub[d].exists
  /\ fs.sub[d].names = {} \/ (d = D_assets /\ fs.sub[d].names = { README_MD })

EmptyDirMsg(d) == Msg("directory is empty - consider removing it", d, 0)

LinkTargets(matches) ==
  { matches[i][2] : i \in { n \in 1..Len(matches) : ~IsUrlOrAnchor(matches[n][2]) } }

SpanNames(matches) == { matches[i][1] : i \in 1..Len(matches) }

ReferredPaths ==
  LinkTargets(findall_links(fs.md_text, 1)) \cup SpanNames(findall_code(fs.md_text, 1))

\* The paths the validator has warned of as not found.
WarnedPaths ==
  { validator.warnings[i].arg :
      i \in { n \in 1..Len(validator.warnings) :
                validator.warnings[n].kind = "Referenced file not found" } }

\* C11: when the reference check has run, the paths warned of as not found are
\* exactly the link targets and code-span file names of the document that do
\* not exist under the skill directory; a code span naming a file that exists
\* gives no warning.
C11_ReferencedFilesChecked ==
  (HasDocument /\ HasReturned(is_valid) /\ ValidFrontmatter) =>
    WarnedPaths = { p \in ReferredPaths : ~Exists(p) }

\* The size check has run: validate() returned and the frontmatter raised nothing.
SizeChecked == HasDocument /\ HasReturned(is_valid) /\ ValidFrontmatter

SizeWarnings ==
  { validator.warnings[i] :
      i \in { n \in 1..Len(validator.warnings) :
                validator.warnings[n].kind \in { "SKILL.md is large", "SKILL.md has lines" } } }

Analyzed == last.cmd = "analyze" /\ last.exit_code = 0

\* The keys of the four (score, max_score, issues) triples of an analysis.
ScoreKeys == { "frontmatter_score", "structure_score", "example_score", "clarity_score" }

\* The four (score, max_score, issues) triples of the report printed last.
Scores == [k \in ScoreKeys |-> last.report.analysis[k]]

\* C13: every sub-score of a report lies within [0, max_score]: the metadata
\* score in 0..20, the structure score in 0..25, the examples score in 0..30
\* and the clarity score in 0..25, whatever the document holds.
C13_SubScoresWithinRange ==
  Analyzed =>
    /\ Scores.frontmatter_score.max_score = 20
    /\ Scores.structure_score.max_score = 25
    /\ Scores.example_score.max_score = 30
    /\ Scores.clarity_score.max_score = 25
    /\ \A k \in DOMAIN Scores : Scores[k].score \in 0..Scores[k].max_score

\* A document of thirteen TODO markers has been scored: the deduction is
\* capped and the clarity score is 10.
C13_Witness ==
  /\ Analyzed
  /\ fs.md_text = S_len100 \o T_todo13
  /\ Scores.clarity_score.score = 10

\* 1 for a condition that holds, 0 for one that does not.
Bit(b) == IF b THEN 1 ELSE 0

\* The name and the description the scorer has read from the frontmatter.
NamePresent == HasKey(last.frontmatter, K_name)
DescriptionPresent == HasKey(last.frontmatter, K_description)
Description == ValueOf(last.frontmatter, K_description)
DescriptionHasTrigger == \E kw \in trigger_keywords : contains(lower(Description), kw)

\* The terms of the metadata score that a present description adds.
DescriptionTerms ==
  5 + 5 * Bit(len(Description) > 50) + 5 * Bit(DescriptionHasTrigger)
    - 5 * Bit(contains(Description, TODO))

\* C14: the metadata score is 5 for a present name, plus, for a present
\* description, 5 and 5 more for a length above 50 and 5 more for a trigger
\* keyword in any case, less 5 for TODO.  With a name, a description under 50
\* characters without TODO or trigger keyword scores 10; one of 100 characters
\* holding "trigger" and no TODO scores 20; one of exactly 50 characters gets
\* no length bonus.
C14_MetadataScore ==
  Analyzed =>
    /\ Scores.frontmatter_score.score =
         5 * Bit(NamePresent) + (IF DescriptionPresent THEN DescriptionTerms ELSE 0)
    /\ ( /\ NamePresent /\ DescriptionPresent
         /\ len(Description) < 50
         /\ ~contains(Description, TODO) /\ ~DescriptionHasTrigger )
       => Scores.frontmatter_score.score = 10
    /\ ( /\ NamePresent /\ DescriptionPresent
         /\ len(Description) = 100
         /\ contains(Description, << "t", "r", "i", "g", "g", "e", "r" >>)
         /\ ~contains(Description, TODO) )
       => Scores.frontmatter_score.score = 20
    /\ (DescriptionPresent /\ len(Description) = 50)
       => /\ Scores.frontmatter_score.score =
               5 * Bit(NamePresent) + 5 + 5 * Bit(DescriptionHasTrigger)
                 - 5 * Bit(contains(Description, TODO))
          /\ \E i \in 1..Len(Scores.frontmatter_score.issues) :
               Scores.frontmatter_score.issues[i].kind = "Description too short (< 50 chars)"

\* A description of exactly 50 characters has been scored, with a name and
\* without trigger keyword: 10 points, no length bonus.
C14_Witness ==
  /\ Analyzed
  /\ fs.md_text = S_len50 \o T_plain
  /\ len(Description) = 50
  /\ Scores.frontmatter_score.score = 10

\* A description of 100 characters holding "trigger" has been scored: 20.
C14_Witness100 ==
  /\ Analyzed
  /\ fs.md_text = S_len100 \o T_plain
  /\ len(Description) = 100
  /\ Scores.frontmatter_score.score = 20

\* The titles of the second-level headings of the document: what follows
\* "## " on a line, stripped, when anything is left.
TitlesOf(lines) ==
  { strip(SubSeq(lines[i], 4, Len(lines[i]))) :
      i \in { j \in 1..Len(lines) : startswith(lines[j], << "#", "#", " " >>) } } \ { << >> }

HeadingTitles == TitlesOf(split(fs.md_text, NL, -1))

PURPOSE == << "P", "u", "r", "p", "o", "s", "e" >>
OVERVIEW == << "O", "v", "e", "r", "v", "i", "e", "w" >>

\* The five titles of the checklist.
Checklist ==
  { PURPOSE,
    << "U", "s", "a", "g", "e" >>,
    << "B", "u", "n", "d", "l", "e", "d", " ", "R", "e", "s", "o", "u", "r", "c", "e", "s" >>,
    << "B", "e", "s", "t", " ", "P", "r", "a", "c", "t", "i", "c", "e", "s" >>,
    << "T", "r", "o", "u", "b", "l", "e", "s", "h", "o", "o", "t", "i", "n", "g" >> }

\* The titles the structure score reports as missing.
ReportedMissing ==
  { Scores.structure_score.issues[i].arg : i \in 1..Len(Scores.structure_score.issues) }

\* C15: the structure score is 5 times the number of titles of the checklist
\* (Purpose, Usage, Bundled Resources, Best Practices, Troubleshooting) found
\* among the section titles, and the titles not found are reported missing; a
\* document with a section Overview and none titled Purpose earns nothing for
\* the first entry and is reported as missing Purpose.
C15_StructureChecklist ==
  Analyzed =>
    /\ Scores.structure_score.score = 5 * Cardinality(Checklist \cap HeadingTitles)
    /\ ReportedMissing = Checklist \ HeadingTitles
    /\ (OVERVIEW \in HeadingTitles /\ PURPOSE \notin HeadingTitles)
       => /\ PURPOSE \in ReportedMissing
          /\ Scores.structure_score.score = 5 * Cardinality((Checklist \ { PURPOSE }) \cap HeadingTitles)

\* A document whose only section is Overview has been scored: 0 points, and
\* Purpose is reported missing.
C15_Witness ==
  /\ Analyzed
  /\ fs.md_text = S_len100 \o T_overview
  /\ HeadingTitles = { OVERVIEW }
  /\ Scores.structure_score.score = 0
  /\ PURPOSE \in ReportedMissing

\* The fenced code blocks of the raw text: its fences pair up in order, one
\* opening a block and the next closing it.
FencedBlocks == count(fs.md_text, FENCE) \div 2

\* The issues of the examples score.
ExampleIssues ==
  { Scores.example_score.issues[i].kind : i \in 1..Len(Scores.example_score.issues) }

\* C16: the examples score depends on the number n of fenced code blocks of
\* the raw text alone: 0 for none, 10 for one, 20 for two, 30 for three or
\* more, whatever the blocks hold; the script files beside the document, and
\* how many of them the text names, change the issues and never the score.
C16_ExampleScore ==
  Analyzed =>
    /\ FencedBlocks = 0 => Scores.example_score.score = 0
    /\ FencedBlocks = 1 => Scores.example_score.score = 10
    /\ FencedBlocks = 2 => Scores.example_score.score = 20
    /\ FencedBlocks >= 3 => Scores.example_score.score = 30
    /\ (fs.md_text = S_len100 \o T_ex3 /\ fs.sub[D_scripts].names = { EXAMPLE_PY, TOOL_PY })
       => /\ FencedBlocks = 3
          /\ ExampleIssues = { "No examples for bundled scripts" }
    /\ (fs.md_text = S_len100 \o T_ex_named /\ fs.sub[D_scripts].names = { EXAMPLE_PY, TOOL_PY })
       => ExampleIssues = { "Only some scripts have examples" }
    /\ (fs.md_text = S_len100 \o T_ex_named /\ fs.sub[D_scripts].names = { EXAMPLE_PY })
       => ExampleIssues = {}

\* A document of three blocks, one of them empty, has been scored beside two
\* scripts it does not name: 30 points and an issue.
C16_Witness ==
  /\ Analyzed
  /\ fs.md_text = S_len100 \o T_ex3
  /\ fs.sub[D_scripts].names = { EXAMPLE_PY, TOOL_PY }
  /\ Scores.example_score.score = 30
  /\ ExampleIssues # {}

\* The TODO markers of the text, in any case, as the scorer counts them.
TodoMarkers(text_lower) == count(text_lower, << "t", "o", "d", "o" >>)

\* The vague terms of the text, in any case.
VagueTerms(text_lower) ==
  count(text_lower, << "s", "o", "m", "e", "t", "h", "i", "n", "g" >>)
  + count(text_lower, << "t", "h", "i", "n", "g", "s" >>)
  + count(text_lower, << "s", "t", "u", "f", "f" >>)
  + count(text_lower, << "e", "t", "c", "." >>)

\* The cue: a section titled "When to Use", or "When to use" in the text.
WhenToUseCue ==
  \/ << "W", "h", "e", "n", " ", "t", "o", " ", "U", "s", "e" >> \in HeadingTitles
  \/ contains(fs.md_text, << "W", "h", "e", "n", " ", "t", "o", " ", "u", "s", "e" >>)

\* The clarity score of the claim for todo markers and vague terms.
ClarityFormula(todo, vague) ==
  20 - (IF 2 * todo < 10 THEN 2 * todo ELSE 10) - 5 * Bit(vague > 3) + 5 * Bit(WhenToUseCue)

\* The formula holds for the score reported, three vague terms cost nothing
\* and five or more markers cost 10.
ClarityAgrees(todo, vague) ==
  /\ Scores.clarity_score.score = ClarityFormula(todo, vague)
  /\ vague = 3 => Scores.clarity_score.score = ClarityFormula(todo, 0)
  /\ vague <= 3 /\ todo = 0 => Scores.clarity_score.score = 20 + 5 * Bit(WhenToUseCue)
  /\ todo >= 5 => Scores.clarity_score.score = 10 - 5 * Bit(vague > 3) + 5 * Bit(WhenToUseCue)

C17_WitnessSix ==
  /\ Analyzed
  /\ fs.md_text = S_len100 \o T_todo6
  /\ Scores.clarity_score.score = 10

\* The sum of the four sub-scores and the sum of their maxima.
SumOfScores ==
  Scores.frontmatter_score.score + Scores.structure_score.score
    + Scores.example_score.score + Scores.clarity_score.score

SumOfMaxima ==
  Scores.frontmatter_score.max_score + Scores.structure_score.max_score
    + Scores.example_score.max_score + Scores.clarity_score.max_score

\* n / d rounded to the nearest integer, for n >= 0 and d > 0.
Rounded(n, d) == (2 * n + d) \div (2 * d)

\* C18: the overall percentage printed is round(100 x the sum of the four
\* sub-scores / the sum of their maxima); the maxima add up to 100, so it is
\* the sum of the sub-scores.
C18_OverallIsRounded ==
  Analyzed =>
    /\ SumOfMaxima = 100
    /\ last.report.overall_pct = Rounded(100 * SumOfScores, SumOfMaxima)
    /\ last.report.overall_pct = SumOfScores

\* The band the report names for an overall value, as the claim has it.
BandOf(overall) ==
  CASE overall >= 80 -> "Excellent documentation quality"
    [] overall >= 60 /\ overall < 80 -> "Good, but could be improved"
    [] overall < 60 -> "Needs significant improvement"

\* C19: an overall percentage of 80 or more is reported as excellent, one
\* from 60 up to 80 as good, one under 60 as needing improvement; one band
\* and only one is reported for every value, 80 and 60 falling in the higher
\* band.  The band is the same whether the value is the percentage printed or
\* the sum of the sub-scores.
C19_Bands ==
  Analyzed =>
    /\ last.report.band = BandOf(last.report.overall_pct)
    /\ last.report.band = BandOf(SumOfScores)
    /\ SumOfScores = 80 => last.report.band = "Excellent documentation quality"
    /\ SumOfScores \in { 60, 79 } => last.report.band = "Good, but could be improved"
    /\ SumOfScores = 59 => last.report.band = "Needs significant improvement"

\* A document scoring exactly 80 has been reported as excellent.
C19_Witness ==
  /\ Analyzed
  /\ fs.md_text = S_len100 \o T_t80
  /\ last.report.overall_pct = 80
  /\ last.report.band = "Excellent documentation quality"

\* A document scoring exactly 60 has been reported as good.
C19_Witness60 ==
  /\ Analyzed
  /\ fs.md_text = S_len100 \o T_t60
  /\ last.report.overall_pct = 60
  /\ last.report.band = "Good, but could be improved"

\* A document scoring exactly 59 has been reported as needing improvement.
C19_Witness59 ==
  /\ Analyzed
  /\ fs.md_text = S_len100 \o T_t59
  /\ last.report.overall_pct = 59
  /\ last.report.band = "Needs significant improvement"

\* --------------------------------------- the report on its own (C20)

\* The values each sub-score takes: lines 94-119, 139-141, 157-165 and 183-202.
SubScoreValues ==
  [frontmatter_score |-> { 5 * n : n \in 0..4 },
   structure_score |-> { 5 * n : n \in 0..5 },
   example_score |-> { 10 * n : n \in 0..3 },
   clarity_score |-> { 20 - Min(10, 2 * t) - 5 * v + 5 * c : t \in 0..5, v \in 0..1, c \in 0..1 }]

\* What analyze() returns for four sub-scores, the issues left out.
AnalysisOf(f, s, e, c) ==
  [frontmatter_score |-> Triple(f, 20, << >>), structure_score |-> Triple(s, 25, << >>),
   example_score |-> Triple(e, 30, << >>), clarity_score |-> Triple(c, 25, << >>)]

\* The result of a process that printed the report on an analysis.
ReportOn(analysis) ==
  Reported(Result("analyze", 0, "", SkillValidator, NoLint, << >>), << >>, Report(analysis))

ReportInit ==
  /\ fs = SkillDir(S_len100 \o T_plain, {}, NoSubs)
  /\ archive = NoArchive
  /\ cmd = "idle"
  /\ pc = "idle"
  /\ validator = SkillValidator
  /\ is_valid = ""
  /\ last = NoResult
  /\ prev = NoResult
  /\ nruns = 0

\* print_report on some four sub-scores.
Score ==
  /\ last = NoResult
  /\ \E f \in SubScoreValues.frontmatter_score, s \in SubScoreValues.structure_score,
        e \in SubScoreValues.example_score, c \in SubScoreValues.clarity_score :
       last' = ReportOn(AnalysisOf(f, s, e, c))
  /\ prev' = last
  /\ UNCHANGED << fs, archive, cmd, pc, validator, is_valid, nruns >>

\* print_report on the sub-scores of the last report with one of them changed.
Rescore ==
  /\ last # NoResult
  /\ \E k \in DOMAIN SubScoreValues : \E x \in SubScoreValues[k] \ { Scores[k].score } :
       last' = ReportOn([Scores EXCEPT ![k].score = x])
  /\ prev' = last
  /\ UNCHANGED << fs, archive, cmd, pc, validator, is_valid, nruns >>

ReportNext == Score \/ Rescore

ReportSpec == ReportInit /\ [][ReportNext]_vars

\* The two reports printed last differ in the sub-score k alone.
DifferOnlyIn(k) ==
  /\ prev.report.analysis[k].score # Scores[k].score
  /\ \A j \in DOMAIN Scores \ { k } : prev.report.analysis[j].score = Scores[j].score

\* C20: the overall percentage does not decrease when one sub-score grows and
\* the others stay: of two reports that differ in one sub-score alone, the one
\* with the larger sub-score has an overall percentage that is not smaller.
C20_OverallMonotone ==
  (prev # NoResult /\ last # NoResult) =>
    \A k \in DOMAIN Scores :
      DifferOnlyIn(k) =>
        /\ prev.report.analysis[k].score < Scores[k].score
             => prev.report.overall_pct <= last.report.overall_pct
        /\ prev.report.analysis[k].score > Scores[k].score
             => prev.report.overall_pct >= last.report.overall_pct

\* Two reports that differ in the clarity score alone, 13 and 14, have been
\* printed: the totals are 28 and 29 and the percentage is 28 for both.
C20_Witness ==
  /\ prev # NoResult /\ last # NoResult
  /\ DifferOnlyIn("clarity_score")
  /\ prev.report.total_score = 28 /\ last.report.total_score = 29
  /\ prev.report.overall_pct = 28 /\ last.report.overall_pct = 28

\* ------------------------------------ the analysis and the parsers (C21 to C27)

\* C21: the overall_score of the analysis that analyze() returns is derived
\* from its own four triples: it is the sum of their scores over the sum of
\* their maxima, as a ratio or as the percentage the report prints.
C21_OverallScoreDerived ==
  Analyzed =>
    \/ last.report.analysis.overall_score * SumOfMaxima = SumOfScores
    \/ last.report.analysis.overall_score = last.report.overall_pct

\* The last process was the scorer, run on an existing SKILL.md.
ScorerRan == last.cmd = "analyze" /\ HasDocument

\* C22: the scorer does not fail on an existing document, however malformed:
\* it prints the report with all four sub-scores, and a document without
\* frontmatter, or with a frontmatter that is not closed, gets 0 for the
\* metadata; this holds as well for documents the validator has found errors in.
C22_ScoringNeverFails ==
  ScorerRan =>
    /\ last.exit_code = 0
    /\ last.report # NoReport
    /\ ScoreKeys \subseteq DOMAIN last.report.analysis
    /\ \A k \in ScoreKeys : Scores[k].score \in 0..Scores[k].max_score
    /\ (~startswith(fs.md_text, DELIM) \/ count(fs.md_text, DELIM) < 2)
       => Scores.frontmatter_score.score = 0
    /\ (last.frontmatter = << >>) => Scores.frontmatter_score.score = 0

\* The validator has failed a document whose frontmatter is not closed, and
\* the scorer run after it has printed its report: 0 for the metadata.
C22_Witness ==
  /\ ScorerRan
  /\ fs.md_text = F_unterminated \o B_demo
  /\ prev.cmd = "validate" /\ prev.errors # << >> /\ prev.exit_code = 1
  /\ last.exit_code = 0
  /\ Scores.frontmatter_score.score = 0

\* The last process ran the validator on an existing SKILL.md.
ValidatorRan == last.cmd \in { "validate", "package" } /\ HasDocument

\* The frontmatter as the scorer reads it.
FlatFrontmatter == _parse_frontmatter(fs.md_text)

\* A flat mapping as a dict of str keys and str values.
AsStrings(flat) ==
  [i \in 1..Len(flat) |-> [k |-> Scalar("str", flat[i].k), v |-> Scalar("str", flat[i].v)]]

\* The flat parse gives a name and a description that are not empty.
FlatRequiredFields(flat) ==
  /\ HasKey(flat, K_name) /\ ValueOf(flat, K_name) # << >>
  /\ HasKey(flat, K_description) /\ ValueOf(flat, K_description) # << >>

\* The messages of the errors on the metadata.
MetadataErrorKinds ==
  { "SKILL.md must start with YAML frontmatter (---)", "Invalid YAML frontmatter format",
    "Invalid YAML frontmatter", "Frontmatter must be a YAML dictionary",
    "Frontmatter missing required 'name' field", "Frontmatter missing required 'description' field",
    "'name' field must be a non-empty string", "'description' field must be a non-empty string" }

\* C23: the validator checks the mapping the scorer scores, every value a
\* plain string: whenever the flat key: value parse gives a name and a
\* description that are not empty (name: 123, or a description holding ': '),
\* the validator loads that very mapping and reports no error on the metadata.
C23_SameMetadata ==
  (ValidatorRan /\ FlatRequiredFields(FlatFrontmatter)) =>
    /\ Loaded.kind = "dict"
    /\ Loaded.d = AsStrings(FlatFrontmatter)
    /\ HasReturned(last.ret)
    /\ \A i \in 1..Len(last.errors) : last.errors[i].kind \notin MetadataErrorKinds

\* The gaps of the report printed last.
Gaps == { last.report.analysis.gaps[i] : i \in 1..Len(last.report.analysis.gaps) }

\* The files of a subdirectory whose names end in ext.
FilesEnding(dir, ext) ==
  IF fs.sub[dir].exists THEN { n \in fs.sub[dir].names : endswith(n, ext) } ELSE {}

\* The gaps the claim has for a text, text_lower being the text in lower case.
GapsAgree(text, text_lower) ==
  /\ "No clear activation triggers documented" \in Gaps
       <=> /\ ~contains(text_lower, << "t", "r", "i", "g", "g", "e", "r" >>)
           /\ ~contains(text_lower, << "a", "c", "t", "i", "v", "a", "t", "e", "d" >>)
  /\ "No troubleshooting section" \in Gaps
       <=> /\ << "T", "r", "o", "u", "b", "l", "e", "s", "h", "o", "o", "t", "i", "n", "g" >> \notin HeadingTitles
           /\ ~contains(text_lower, << "t", "r", "o", "u", "b", "l", "e", "s", "h", "o", "o", "t" >>)
  /\ "Scripts exist but aren't documented" \in Gaps
       <=> /\ FilesEnding(D_scripts, << ".", "p", "y" >>) # {}
           /\ ~contains(text, << "s", "c", "r", "i", "p", "t", "s", "/" >>)
  /\ "Reference files exist but aren't documented" \in Gaps
       <=> /\ FilesEnding(D_references, << ".", "m", "d" >>) # {}
           /\ ~contains(text, << "r", "e", "f", "e", "r", "e", "n", "c", "e", "s", "/" >>)

\* The four sub-scores are those of the frontmatter and the text alone.
ScoredWithoutGaps(text_lower) ==
  /\ Scores.frontmatter_score.score =
       5 * Bit(NamePresent) + (IF DescriptionPresent THEN DescriptionTerms ELSE 0)
  /\ Scores.structure_score.score = 5 * Cardinality(Checklist \cap HeadingTitles)
  /\ Scores.example_score.score = (IF FencedBlocks >= 3 THEN 30 ELSE 10 * FencedBlocks)
  /\ Scores.clarity_score.score = ClarityFormula(TodoMarkers(text_lower), VagueTerms(text_lower))

\* C24: the activation-trigger gap is reported iff neither 'trigger' nor
\* 'activated' occurs in the text; the troubleshooting gap iff there is no
\* Troubleshooting section and no 'troubleshoot' in the text; the scripts gap
\* iff a script file exists and 'scripts/' does not occur in the text; the
\* references gap iff the references directory holds a markdown file and
\* 'references/' does not occur in the text; and the gaps change no sub-score.
C24_Gaps ==
  Analyzed =>
    /\ GapsAgree(fs.md_text, lower(fs.md_text))
    /\ ScoredWithoutGaps(lower(fs.md_text))
    /\ Gaps \subseteq { "No clear activation triggers documented", "No troubleshooting section",
                        "Scripts exist but aren't documented",
                        "Reference files exist but aren't documented" }

\* A document that names neither directory has been analyzed beside a script
\* and a reference file: both gaps are reported, and no other.
C24_Witness ==
  /\ Analyzed
  /\ fs.md_text = T_gap_words
  /\ fs.sub[D_scripts].names = { EXAMPLE_PY }
  /\ last.report.analysis.gaps =
       << "Scripts exist but aren't documented", "Reference files exist but aren't documented" >>

\* The lines of the document, and the indices of those that start with the
\* second-level heading marker, in order.
DocLines == split(fs.md_text, NL, -1)

RECURSIVE HeadingsFrom(_, _)
HeadingsFrom(lines, i) ==
  IF i > Len(lines) THEN << >>
  ELSE IF startswith(lines[i], << "#", "#", " " >>) THEN << i >> \o HeadingsFrom(lines, i + 1)
  ELSE HeadingsFrom(lines, i + 1)

\* The section that the heading at line h opens and that the line before
\* line e closes.
SectionOf(lines, h, e) ==
  [k |-> strip(SubSeq(lines[h], 4, Len(lines[h]))), v |-> join(NL, SubSeq(lines, h + 1, e - 1))]

\* One section for each heading, in document order.
SectionsBy(lines, heads) ==
  [n \in 1..Len(heads) |->
     SectionOf(lines, heads[n], IF n < Len(heads) THEN heads[n + 1] ELSE Len(lines) + 1)]

\* C25: every line that starts with the second-level heading marker opens a
\* section named by the trimmed heading text, the lines after it belong to
\* that section up to the next such heading or the end, the lines before the
\* first heading belong to no section, and the mapping has one entry for each
\* second-level heading, in document order.
C25_SectionExtraction ==
  Analyzed => last.sections = SectionsBy(DocLines, HeadingsFrom(DocLines, 1))

\* C26: the content of a section ends at the next heading of the same or a
\* higher level: no section holds a first-level heading line.
C26_SectionEndsAtHigherHeading ==
  Analyzed =>
    \A n \in 1..Len(last.sections) :
      \A l \in { split(last.sections[n].v, NL, -1)[i] : i \in 1..Len(split(last.sections[n].v, NL, -1)) } :
        ~startswith(l, << "#", " " >>)

\* The line that closes the metadata block: the first line from the third on
\* that starts with the delimiter, 0 when there is none.
ClosingLine(lines) == First({ i \in 3..Len(lines) : startswith(lines[i], DELIM) })

\* The lines of the metadata block: those between a first line that is the
\* delimiter and the closing line.
BlockLines(lines, closing) ==
  IF Len(lines) = 0 \/ lines[1] # DELIM \/ closing = 0 THEN << >>
  ELSE SubSeq(lines, 2, closing - 1)

\* The place of the first colon of a line, 0 when it has none.
ColonAt(l) == First({ j \in 1..Len(l) : l[j] = ":" })

\* The key and the value of a line that holds a colon.
KeyOfLine(l) == strip(SubSeq(l, 1, ColonAt(l) - 1))
ValueOfLine(l) == strip(SubSeq(l, ColonAt(l) + 1, Len(l)))

\* The mapping is that of the block: its keys are those of the lines holding a
\* colon, each once, with the value of the last line of the key.
MappingOfBlock(fm, block) ==
  /\ { fm[i].k : i \in 1..Len(fm) } = { KeyOfLine(block[n]) : n \in { m \in 1..Len(block) : ColonAt(block[m]) # 0 } }
  /\ \A i, j \in 1..Len(fm) : fm[i].k = fm[j].k => i = j
  /\ \A i \in 1..Len(fm) :
       fm[i].v = ValueOfLine(block[Last({ m \in 1..Len(block) :
                                           ColonAt(block[m]) # 0 /\ KeyOfLine(block[m]) = fm[i].k })])

\* C27: each line of the metadata block that holds a colon yields an entry,
\* its key the trimmed text before the first colon and its value the trimmed
\* text after it, later colons staying in the value; a line without colon
\* yields nothing; of several lines with one key the last gives the value.
C27_FlatFrontmatter ==
  Analyzed => MappingOfBlock(last.frontmatter, BlockLines(DocLines, ClosingLine(DocLines)))

\* A frontmatter naming a key twice, with a line without colon and a value
\* holding a colon, has been parsed.
C27_Witness ==
  /\ Analyzed
  /\ fs.md_text = S_dup \o T_plain
  /\ last.frontmatter =
       << [k |-> K_name, v |-> << "d", "e", "m", "o" >>],
          [k |-> K_description, v |-> << "o", "n", "e", ":", " ", "t", "w", "o" >>] >>

\* ------------------------------------- one validator called again (C28)

\* validate() called on the validator at hand: a new one at first, then the
\* one the call before has left.
ValidateCall ==
  /\ nruns < MaxRuns
  /\ nruns > 0 => HasReturned(is_valid)
  /\ nruns' = nruns + 1
  /\ \E r \in validate(validator) :
       /\ validator' = [errors |-> r.errors, warnings |-> r.warnings]
       /\ is_valid' = r.ret
       /\ last' = Result("validate", IF r.ret = "True" THEN 0 ELSE 1, r.ret, r, NoLint, << >>)
  /\ prev' = last
  /\ UNCHANGED << fs, archive, cmd, pc >>

ValidatorNext == ValidateCall

ValidatorSpec == Init /\ [][ValidatorNext]_vars

\* C28: a second call of validate() on the same validator, document and tree
\* unchanged, returns the boolean of the first and leaves errors and warnings
\* as they were after the first call.
C28_SecondCallAgrees ==
  (prev.cmd = "validate" /\ last.cmd = "validate") =>
    /\ last.ret = prev.ret
    /\ last.errors = prev.errors
    /\ last.warnings = prev.warnings

\* ------------------------------------------------------------ init_skill.py

UpperChar(c) ==
  CASE c = "a" -> "A" [] c = "b" -> "B" [] c = "c" -> "C" [] c = "d" -> "D"
    [] c = "e" -> "E" [] c = "f" -> "F" [] c = "g" -> "G" [] c = "h" -> "H"
    [] c = "i" -> "I" [] c = "j" -> "J" [] c = "k" -> "K" [] c = "l" -> "L"
    [] c = "m" -> "M" [] c = "n" -> "N" [] c = "o" -> "O" [] c = "p" -> "P"
    [] c = "q" -> "Q" [] c = "r" -> "R" [] c = "s" -> "S" [] c = "t" -> "T"
    [] c = "u" -> "U" [] c = "v" -> "V" [] c = "w" -> "W" [] c = "x" -> "X"
    [] c = "y" -> "Y" [] c = "z" -> "Z" [] OTHER -> c

\* Whether the character is a letter: it has another case.
IsCased(c) == UpperChar(c) # c \/ LowerChar(c) # c

\* str.isalnum() of one character of a name.
isalnum(c) == IsCased(c) \/ c \in { "0", "1", "2", "3", "4", "5", "6", "7", "8", "9" }

\* str.replace(old, new) for one-character old and new.
replace(s, old, new) == [i \in 1..Len(s) |-> IF s[i] = old THEN new ELSE s[i]]

\* str.title(): a letter that follows no letter is put in upper case, every
\* other letter in lower case.
title(s) ==
  [i \in 1..Len(s) |-> IF i = 1 \/ ~IsCased(s[i - 1]) THEN UpperChar(s[i]) ELSE LowerChar(s[i])]

\* SKILL_MD_TEMPLATE, lines 16-61, around its two fields.
TEMPLATE_HEAD ==
  << "-", "-", "-", "\n", "n", "a", "m", "e", ":", " " >>

TEMPLATE_MIDDLE ==
  << "\n", "d", "e", "s", "c", "r", "i", "p", "t", "i", "o", "n", ":", " ", "T", "O", "D", "O",
     ":", " ", "D", "e", "s", "c", "r", "i", "b", "e", " ", "w", "h", "a", "t", " ", "t", "h",
     "i", "s", " ", "s", "k", "i", "l", "l", " ", "d", "o", "e", "s", " ", "a", "n", "d", " ",
     "w", "h", "e", "n", " ", "t", "o", " ", "u", "s", "e", " ", "i", "t", ".", " ", "B", "e",
     " ", "s", "p", "e", "c", "i", "f", "i", "c", " ", "a", "n", "d", " ", "i", "n", "c", "l",
     "u", "d", "e", " ", "k", "e", "y", " ", "t", "e", "r", "m", "s", " ", "t", "h", "a", "t",
     " ", "w", "o", "u", "l", "d", " ", "t", "r", "i", "g", "g", "e", "r", " ", "t", "h", "i",
     "s", " ", "s", "k", "i", "l", "l", ".", "\n", "-", "-", "-", "\n", "\n", "#", " " >>

TEMPLATE_TAIL ==
  << "\n", "\n", "T", "O", "D", "O", ":", " ", "W", "r", "i", "t", "e", " ", "a", " ", "b", "r",
     "i", "e", "f", " ", "o", "v", "e", "r", "v", "i", "e", "w", " ", "o", "f", " ", "w", "h",
     "a", "t", " ", "t", "h", "i", "s", " ", "s", "k", "i", "l", "l", " ", "p", "r", "o", "v",
     "i", "d", "e", "s", ".", "\n", "\n", "#", "#", " ", "O", "v", "e", "r", "v", "i", "e", "w",
     "\n", "\n", "T", "O", "D", "O", ":", " ", "D", "e", "s", "c", "r", "i", "b", "e", " ", "t",
     "h", "e", " ", "s", "k", "i", "l", "l", "'", "s", " ", "p", "u", "r", "p", "o", "s", "e",
     " ", "a", "n", "d", " ", "c", "a", "p", "a", "b", "i", "l", "i", "t", "i", "e", "s", ".",
     "\n", "\n", "#", "#", " ", "U", "s", "a", "g", "e", "\n", "\n", "T", "O", "D", "O", ":",
     " ", "P", "r", "o", "v", "i", "d", "e", " ", "i", "n", "s", "t", "r", "u", "c", "t", "i",
     "o", "n", "s", " ", "f", "o", "r", " ", "u", "s", "i", "n", "g", " ", "t", "h", "i", "s",
     " ", "s", "k", "i", "l", "l", ".", "\n", "\n", "#", "#", "#", " ", "Q", "u", "i", "c", "k",
     " ", "S", "t", "a", "r", "t", "\n", "\n", "T", "O", "D", "O", ":", " ", "S", "h", "o", "w",
     " ", "t", "h", "e", " ", "m", "o", "s", "t", " ", "c", "o", "m", "m", "o", "n", " ", "u",
     "s", "e", " ", "c", "a", "s", "e", " ", "w", "i", "t", "h", " ", "a", "n", " ", "e", "x",
     "a", "m", "p", "l", "e", ".", "\n", "\n", "#", "#", "#", " ", "A", "d", "v", "a", "n", "c",
     "e", "d", " ", "F", "e", "a", "t", "u", "r", "e", "s", "\n", "\n", "T", "O", "D", "O", ":",
     " ", "D", "o", "c", "u", "m", "e", "n", "t", " ", "a", "d", "d", "i", "t", "i", "o", "n",
     "a", "l", " ", "c", "a", "p", "a", "b", "i", "l", "i", "t", "i", "e", "s", " ", "i", "f",
     " ", "a", "p", "p", "l", "i", "c", "a", "b", "l", "e", ".", "\n", "\n", "#", "#", " ", "B",
     "u", "n", "d", "l", "e", "d", " ", "R", "e", "s", "o", "u", "r", "c", "e", "s", "\n", "\n",
     "#", "#", "#", " ", "S", "c", "r", "i", "p", "t", "s", "\n", "\n", "-", " ", BACKTICK, "s",
     "c", "r", "i", "p", "t", "s", "/", "e", "x", "a", "m", "p", "l", "e", ".", "p", "y",
     BACKTICK, " ", "-", " ", "T", "O", "D", "O", ":", " ", "D", "e", "s", "c", "r", "i", "b",
     "e", " ", "w", "h", "a", "t", " ", "t", "h", "i", "s", " ", "s", "c", "r", "i", "p", "t",
     " ", "d", "o", "e", "s", "\n", "\n", "#", "#", "#", " ", "R", "e", "f", "e", "r", "e", "n",
     "c", "e", "s", "\n", "\n", "-", " ", BACKTICK, "r", "e", "f", "e", "r", "e", "n", "c", "e",
     "s", "/", "e", "x", "a", "m", "p", "l", "e", ".", "m", "d", BACKTICK, " ", "-", " ", "T",
     "O", "D", "O", ":", " ", "D", "e", "s", "c", "r", "i", "b", "e", " ", "w", "h", "a", "t",
     " ", "r", "e", "f", "e", "r", "e", "n", "c", "e", " ", "m", "a", "t", "e", "r", "i", "a",
     "l", " ", "t", "h", "i", "s", " ", "p", "r", "o", "v", "i", "d", "e", "s", "\n", "\n", "#",
     "#", "#", " ", "A", "s", "s", "e", "t", "s", "\n", "\n", "-", " ", BACKTICK, "a", "s", "s",
     "e", "t", "s", "/", "e", "x", "a", "m", "p", "l", "e", "/", BACKTICK, " ", "-", " ", "T",
     "O", "D", "O", ":", " ", "D", "e", "s", "c", "r", "i", "b", "e", " ", "w", "h", "a", "t",
     " ", "a", "s", "s", "e", "t", "s", " ", "a", "r", "e", " ", "i", "n", "c", "l", "u", "d",
     "e", "d", "\n", "\n", "#", "#", " ", "B", "e", "s", "t", " ", "P", "r", "a", "c", "t", "i",
     "c", "e", "s", "\n", "\n", "T", "O", "D", "O", ":", " ", "I", "n", "c", "l", "u", "d", "e",
     " ", "t", "i", "p", "s", " ", "f", "o", "r", " ", "g", "e", "t", "t", "i", "n", "g", " ",
     "t", "h", "e", " ", "b", "e", "s", "t", " ", "r", "e", "s", "u", "l", "t", "s", " ", "w",
     "i", "t", "h", " ", "t", "h", "i", "s", " ", "s", "k", "i", "l", "l", ".", "\n", "\n", "#",
     "#", " ", "T", "r", "o", "u", "b", "l", "e", "s", "h", "o", "o", "t", "i", "n", "g", "\n",
     "\n", "T", "O", "D", "O", ":", " ", "D", "o", "c", "u", "m", "e", "n", "t", " ", "c", "o",
     "m", "m", "o", "n", " ", "i", "s", "s", "u", "e", "s", " ", "a", "n", "d", " ", "s", "o",
     "l", "u", "t", "i", "o", "n", "s", ".", "\n" >>

\* SKILL_MD_TEMPLATE.format(skill_name=..., skill_title=...)
SKILL_MD_TEMPLATE(skill_name, skill_title) ==
  TEMPLATE_HEAD \o skill_name \o TEMPLATE_MIDDLE \o skill_title \o TEMPLATE_TAIL

EXAMPLE_MD == << "e", "x", "a", "m", "p", "l", "e", ".", "m", "d" >>

\* validate_skill_name(name)
validate_skill_name(name) ==
  /\ name # << >>
  /\ \A i \in 1..Len(name) : isalnum(name[i]) \/ name[i] \in { "-", "_" }
  /\ ~(startswith(name, << "-" >>) \/ startswith(name, << "_" >>))

\* create_skill_structure, lines 157-178: the directory with its three
\* subdirectories, SKILL.md from the template and the three example files.
create_skill_structure(skill_name) ==
  SkillDir(SKILL_MD_TEMPLATE(skill_name, title(replace(replace(skill_name, "-", " "), "_", " "))),
           {},
           Subs(Dir({ EXAMPLE_PY }), Dir({ EXAMPLE_MD }), Dir({ README_MD })))

\* The names given on the command line of init_skill.py.
SkillNames ==
  { << "d", "e", "m", "o" >>,
    << "m", "y", "-", "s", "k", "i", "l", "l" >>,
    << "p", "d", "f", "_", "t", "o", "_", "t", "x", "t", "2" >>,
    << "-", "b", "a", "d" >>,
    << "m", "y", " ", "s", "k", "i", "l", "l" >>,
    << >> }

\* init_skill.py <skill_name>, main and create_skill_structure: an invalid
\* name or an existing path ends the process with status 1 and nothing
\* written; otherwise the structure is created at the path.
InitSkill ==
  /\ CanStart
  /\ nruns' = nruns + 1
  /\ UNCHANGED << archive, validator, is_valid >>
  /\ \E skill_name \in SkillNames :
       IF validate_skill_name(skill_name) /\ fs.dir = "missing"
       THEN /\ fs' = create_skill_structure(skill_name)
            /\ Exit(Result("init", 0, "", SkillValidator, NoLint, << >>))
       ELSE /\ UNCHANGED fs
            /\ Exit(Result("init", 1, "", SkillValidator, NoLint, << >>))

\* The paths init_skill.py is started on: none, a file, directories without
\* SKILL.md and skill directories.
InitDirs ==
  { d \in SkillDirs : d.dir # "dir" \/ ~d.md_exists }
  \cup { SkillDir(d, {}, NoSubs) : d \in CoreDocs }

InitInit ==
  /\ fs \in InitDirs
  /\ archive = NoArchive
  /\ cmd = "idle"
  /\ pc = "idle"
  /\ validator = SkillValidator
  /\ is_valid = ""
  /\ last = NoResult
  /\ prev = NoResult
  /\ nruns = 0

\* The command lines of a session of init_skill.py, package_skill.py and
\* forge.py validate: the steps init_skill.py prints as the next ones.
InitNext == InitSkill \/ MainValidate \/ MainPackage \/ ForgeValidate

InitSpec == InitInit /\ [][InitNext]_vars

\* Whether the last process ran on a directory that the process before it
\* created.
Fresh == prev.cmd = "init" /\ prev.exit_code = 0

\* C29: a process that validates a directory right after init_skill.py created
\* it records no error and validate() returns True, and package_skill.py then
\* ends with status 0.
C29_FreshSkillValidates ==
  (Fresh /\ last.cmd \in { "validate", "package" }) =>
    /\ last.errors = << >>
    /\ last.ret = "True"
    /\ last.exit_code = 0

\* ------------------------------------------------------------ forge.py migrate

LICENSE == << "l", "i", "c", "e", "n", "s", "e", ":" >>
SKILL_MD_BACKUP ==
  << "S", "K", "I", "L", "L", ".", "m", "d", ".", "b", "a", "c", "k", "u", "p" >>

\* What reading in text mode makes of the characters of a file: "\r\n" and
\* then every "\r" left are read as "\n".
universal_newlines(s) ==
  join(NL, split(join(NL, split(s, << "\r", "\n" >>, -1)), << "\r" >>, -1))

\* What writing in text mode puts in the file: every "\n" as os.linesep.
WrittenAs(s, linesep) == join(linesep, split(s, NL, -1))

\* a license line between name and description
M_license ==
  << "-", "-", "-", "\n", "n", "a", "m", "e", ":", " ", "d", "e", "m", "o", "\n", "l", "i", "c",
     "e", "n", "s", "e", ":", " ", "M", "I", "T", "\n", "d", "e", "s", "c", "r", "i", "p", "t",
     "i", "o", "n", ":", " ", "d", "\n", "-", "-", "-", "\n", "#", " ", "D", "e", "m", "o", "\n" >>

\* the same document with the line ends of Windows
M_license_crlf ==
  << "-", "-", "-", "\r", "\n", "n", "a", "m", "e", ":", " ", "d", "e", "m", "o", "\r", "\n", "l",
     "i", "c", "e", "n", "s", "e", ":", " ", "M", "I", "T", "\r", "\n", "d", "e", "s", "c", "r",
     "i", "p", "t", "i", "o", "n", ":", " ", "d", "\r", "\n", "-", "-", "-", "\r", "\n", "#", " ",
     "D", "e", "m", "o", "\r", "\n" >>

\* a license line, the line ends being single carriage returns
M_license_cr ==
  << "-", "-", "-", "\r", "n", "a", "m", "e", ":", " ", "d", "e", "m", "o", "\r", "l", "i", "c",
     "e", "n", "s", "e", ":", " ", "M", "I", "T", "\r", "-", "-", "-", "\r", "#", " ", "D", "e",
     "m", "o", "\r" >>

\* no license line
M_plain ==
  << "-", "-", "-", "\n", "n", "a", "m", "e", ":", " ", "d", "e", "m", "o", "\n", "d", "e", "s",
     "c", "r", "i", "p", "t", "i", "o", "n", ":", " ", "d", "\n", "-", "-", "-", "\n", "#", " ",
     "D", "e", "m", "o", "\n" >>

\* no license line, the line ends of Windows
M_plain_crlf ==
  << "-", "-", "-", "\r", "\n", "n", "a", "m", "e", ":", " ", "d", "e", "m", "o", "\r", "\n", "-",
     "-", "-", "\r", "\n", "#", " ", "D", "e", "m", "o", "\r", "\n" >>

\* an indented license line, last of the frontmatter
M_indented ==
  << "-", "-", "-", "\n", "n", "a", "m", "e", ":", " ", "d", "e", "m", "o", "\n", "m", "e", "t",
     "a", "d", "a", "t", "a", ":", "\n", " ", " ", "l", "i", "c", "e", "n", "s", "e", ":", " ",
     "M", "I", "T", "\n", "-", "-", "-", "\n", "#", " ", "D", "e", "m", "o", "\n" >>

\* license: inside another key only
M_other_key ==
  << "-", "-", "-", "\n", "n", "a", "m", "e", ":", " ", "d", "e", "m", "o", "\n", "x", "-", "l",
     "i", "c", "e", "n", "s", "e", ":", " ", "M", "I", "T", "\n", "-", "-", "-", "\n", "#", " ",
     "D", "e", "m", "o", "\n" >>

\* two license lines and license: inside another key
M_both_keys ==
  << "-", "-", "-", "\n", "l", "i", "c", "e", "n", "s", "e", ":", " ", "M", "I", "T", "\n", "x",
     "-", "l", "i", "c", "e", "n", "s", "e", ":", " ", "M", "I", "T", "\n", "n", "a", "m", "e",
     ":", " ", "d", "e", "m", "o", "\n", "l", "i", "c", "e", "n", "s", "e", ":", " ", "G", "P",
     "L", "\n", "-", "-", "-", "\n", "#", " ", "D", "e", "m", "o", "\n" >>

\* license: in the body only
M_body_only ==
  << "-", "-", "-", "\n", "n", "a", "m", "e", ":", " ", "d", "e", "m", "o", "\n", "-", "-", "-",
     "\n", "l", "i", "c", "e", "n", "s", "e", ":", " ", "s", "e", "e", " ", "L", "I", "C", "E",
     "N", "S", "E", "\n" >>

\* a license line in a frontmatter that is not closed
M_unclosed ==
  << "-", "-", "-", "\n", "n", "a", "m", "e", ":", " ", "d", "e", "m", "o", "\n", "l", "i", "c",
     "e", "n", "s", "e", ":", " ", "M", "I", "T", "\n" >>

\* no frontmatter
M_no_frontmatter ==
  << "#", " ", "D", "e", "m", "o", "\n", "l", "i", "c", "e", "n", "s", "e", ":", " ", "M", "I",
     "T", "\n" >>

\* a license line, and a rule and a license line in the body
M_rule_in_body ==
  << "-", "-", "-", "\n", "n", "a", "m", "e", ":", " ", "d", "e", "m", "o", "\n", "l", "i", "c",
     "e", "n", "s", "e", ":", " ", "M", "I", "T", "\n", "-", "-", "-", "\n", "a", "\n", "-", "-",
     "-", "\n", "l", "i", "c", "e", "n", "s", "e", ":", " ", "x", "\n" >>

\* the delimiters and the license line on one line
M_one_line ==
  << "-", "-", "-", "l", "i", "c", "e", "n", "s", "e", ":", " ", "M", "I", "T", "-", "-", "-",
     "#", " ", "D", "e", "m", "o", "\n" >>

\* license: inside a value and a license line
M_in_value ==
  << "-", "-", "-", "\n", "d", "e", "s", "c", "r", "i", "p", "t", "i", "o", "n", ":", " ", "s",
     "e", "e", " ", "l", "i", "c", "e", "n", "s", "e", ":", " ", "M", "I", "T", "\n", "l", "i",
     "c", "e", "n", "s", "e", ":", " ", "M", "I", "T", "\n", "-", "-", "-", "\n" >>

MigrateDocs ==
  { M_license, M_license_crlf, M_license_cr, M_plain, M_plain_crlf,
    M_indented, M_other_key, M_both_keys, M_body_only, M_unclosed,
    M_no_frontmatter, M_rule_in_body, M_one_line, M_in_value }

\* Line 321: not l.strip().startswith('license:').
KeepsLine(l) == ~startswith(strip(l), LICENSE)

\* Lines 320-322: the frontmatter without its license lines.
WithoutLicense(frontmatter) ==
  join(NL, SelectSeq(split(frontmatter, NL, -1), KeepsLine))

\* Lines 314-323, parts being content.split("---", 2).
MigratedParts(content, parts) ==
  IF Len(parts) >= 3 /\ contains(parts[2], LICENSE)
  THEN DELIM \o WithoutLicense(parts[2]) \o DELIM \o parts[3]
  ELSE content

\* Lines 312-324: the content migrate would leave in SKILL.md.
Migrated(content) ==
  IF startswith(content, DELIM) THEN MigratedParts(content, split(content, DELIM, 2)) ELSE content

NoFile == [exists |-> FALSE, text |-> << >>]
File(text) == [exists |-> TRUE, text |-> text]

\* A directory with the characters SKILL.md and SKILL.md.backup hold on disk,
\* the line separator of the platform and the writes made to the two files.
MigrateDir(d, backup, linesep) ==
  [dir |-> d.dir, md_exists |-> d.md_exists, md_text |-> d.md_text,
   files |-> IF backup.exists THEN { SKILL_MD_BACKUP } ELSE {}, sub |-> d.sub,
   backup |-> backup, linesep |-> linesep, md_writes |-> 0, backup_writes |-> 0]

\* os.linesep of POSIX and of Windows.
Lineseps == { << "\n" >>, << "\r", "\n" >> }

\* The directories forge.py migrate is started on.
MigrateDirs ==
  { MigrateDir(SkillDir(d, {}, NoSubs), b, sep) :
      d \in MigrateDocs, b \in { NoFile, File(M_plain) }, sep \in Lineseps }
  \cup { MigrateDir(d, NoFile, << "\n" >>) : d \in { x \in SkillDirs : ~x.md_exists /\ x.files = {} } }

\* Lines 327-334: the backup is written with the original content, then
\* SKILL.md with the new content.
Rewrite(original_content, content) ==
  [fs EXCEPT !.backup = File(WrittenAs(original_content, fs.linesep)),
             !.backup_writes = @ + 1,
             !.files = @ \cup { SKILL_MD_BACKUP },
             !.md_text = WrittenAs(content, fs.linesep),
             !.md_writes = @ + 1]

\* Lines 307-344, content being skill_md.read_text().
MigrateContent(content) ==
  IF Migrated(content) # content
  THEN /\ fs' = Rewrite(content, Migrated(content))
       /\ Exit(Result("migrate", 0, "Migration complete!", SkillValidator, NoLint, << >>))
  ELSE /\ UNCHANGED fs
       /\ Exit(Result("migrate", 0, "No migration needed", SkillValidator, NoLint, << >>))

\* forge.py migrate <skill_path>
ForgeMigrate ==
  /\ CanStart
  /\ nruns' = nruns + 1
  /\ UNCHANGED << archive, validator, is_valid >>
  /\ IF ~Exists(SKILL_MD)
     THEN /\ UNCHANGED fs
          /\ Exit(Result("migrate", 1, "", SkillValidator, NoLint, << >>))
     ELSE MigrateContent(universal_newlines(read_text))

MigrateInit ==
  /\ fs \in MigrateDirs
  /\ archive = NoArchive
  /\ cmd = "idle"
  /\ pc = "idle"
  /\ validator = SkillValidator
  /\ is_valid = ""
  /\ last = NoResult
  /\ prev = NoResult
  /\ nruns = 0

MigrateNext == ForgeMigrate

MigrateSpec == MigrateInit /\ [][MigrateNext]_vars

\* The frontmatter and the body of a text that starts with a closed
\* frontmatter: what lies between the first two "---", and what follows.
FrontmatterPart(text) == split(text, DELIM, 2)[2]
BodyPart(text) == split(text, DELIM, 2)[3]

\* Whether a line of the frontmatter starts with 'license:'.
HasLicenseLine(frontmatter) ==
  \E i \in 1..Len(split(frontmatter, NL, -1)) : startswith(split(frontmatter, NL, -1)[i], LICENSE)

\* What holds of a run of migrate that wrote SKILL.md.
PreservedOriginal ==
  /\ fs'.backup = File(fs.md_text)
  /\ ~HasLicenseLine(FrontmatterPart(fs'.md_text))
  /\ BodyPart(fs'.md_text) = BodyPart(fs.md_text)

\* C30: a run of migrate that writes SKILL.md leaves the content SKILL.md had
\* before in SKILL.md.backup, a frontmatter without a line starting with
\* 'license:' and the body as it was; a run that does not write SKILL.md
\* writes neither file; and a run right after a run of migrate changes
\* nothing.
C30_MigratePreserves ==
  [][last'.cmd = "migrate" =>
       /\ IF fs'.md_writes > fs.md_writes THEN PreservedOriginal ELSE fs' = fs
       /\ (last.cmd = "migrate" /\ last.exit_code = 0) => fs' = fs]_vars

====
